---------------------------- MODULE Spec2Model ----------------------------
(***************************************************************************)
(* The availability / booking engine of the Corprex meeting scheduler      *)
(* (src/scheduler-api.js, the Express server that starts at line 250).     *)
(*                                                                         *)
(* State: the two in-memory maps of `db` (availability, meetings), the     *)
(* wall clock read by moment(), the Book handlers suspended at an await    *)
(* of transporter.sendMail, and the latest request handled with the        *)
(* response it was given.  Node runs one handler at a time: a handler's    *)
(* code between two awaits is one step.                                    *)
(*                                                                         *)
(* The admin backend (src/server.js) is a second Express server on         *)
(* MongoDB: its collections, the handler each client has suspended at a    *)
(* database call, and the latest response.  Each database call is one      *)
(* step.                                                                   *)
(***************************************************************************)
EXTENDS Integers, Sequences, FiniteSets, TLC

VARIABLES
    availability,   \* db.availability : key -> [date, time, isAvailable]
    meetings,       \* db.meetings     : id  -> meeting record
    pending,        \* Book handlers suspended at `await transporter.sendMail`,
                    \* by the meetingId each one generated
    last,           \* the latest request handled and the response sent for it
    now,            \* the wall clock: minutes since 2025-01-01 00:00 local time
    \* the admin backend (src/server.js), a separate process on MongoDB
    users,          \* collections.users    : set of user documents
    sessions,       \* collections.sessions : set of session documents
    models,         \* collections.models   : set of model documents
    apiKeys,        \* collections.apiKeys  : the providers of the document
                    \* 'main' that have a key
    usage,          \* collections.usage    : sequence of usage documents
    flights,        \* the handler each client has suspended at an await, if any
    reply,          \* the latest response the backend sent
    seen,           \* what the clients were told: tokens of login responses,
                    \* tokens logged out, usernames deleted
    minted,         \* random tokens and ObjectIds generated so far
    clock           \* the backend's clock, in days

\* the state of the scheduler and the state of the admin backend
schedVars == <<availability, meetings, pending, last, now>>

adminVars == <<users, sessions, models, apiKeys, usage, flights, reply, seen, minted, clock>>

vars == <<availability, meetings, pending, last, now,
          users, sessions, models, apiKeys, usage, flights, reply, seen, minted, clock>>

-----------------------------------------------------------------------------
(* Bounds of the model *)

\* days of the rolling window generated at startup (the code uses 90)
HorizonDays == 3
\* Meeting records the store may hold
MaxMeetings == 3
\* Book handlers that may be suspended at an await at the same time
MaxInFlight == 1
\* days the clock may advance past the startup day
MaxDays == 1

\* the startup day, as a day of the year 2025 (0 = Jan 1): Thursday 2025-01-30
StartDay == 29

-----------------------------------------------------------------------------
(* Calendar: moment's date arithmetic and formatting, for the year 2025 *)

MinutesPerDay == 24 * 60

MonthLen == <<31, 28, 31, 30, 31, 30, 31, 31, 30, 31, 30, 31>>

RECURSIVE MonthOf(_, _)
\* the month (1..12) that holds day-of-year n, searching from month m
MonthOf(n, m) == IF m = 12 \/ n < MonthLen[m] THEN m ELSE MonthOf(n - MonthLen[m], m + 1)

RECURSIVE DayOfMonth(_, _)
DayOfMonth(n, m) == IF m = 12 \/ n < MonthLen[m] THEN n + 1 ELSE DayOfMonth(n - MonthLen[m], m + 1)

Pad2(n) == IF n < 10 THEN "0" \o ToString(n) ELSE ToString(n)

\* date.format('YYYY-MM-DD')
FormatDate(n) == "2025-" \o Pad2(MonthOf(n, 1)) \o "-" \o Pad2(DayOfMonth(n, 1))

\* date.day(): 0 = Sunday .. 6 = Saturday; 2025-01-01 is a Wednesday
DayOfWeek(n) == (n + 3) % 7

\* the civil day of an instant: moment().startOf('day')
Today(t) == t \div MinutesPerDay

\* the time of day of an instant, in minutes
TimeOfDay(t) == t % MinutesPerDay

-----------------------------------------------------------------------------
(* The slot calendar *)

\* the daily template of initializeAvailability
slots == << "9:00 AM", "9:30 AM", "10:00 AM", "10:30 AM", "11:00 AM", "11:30 AM",
            "2:00 PM", "2:30 PM", "3:00 PM", "3:30 PM", "4:00 PM", "4:30 PM" >>

\* the key of the availability map: `${date}-${time}`
SlotKey(date, time) == date \o "-" \o time

\* mutant of initializeAvailability: Saturdays and Sundays are not skipped
initializeAvailability_Weekends(av, today) ==
    LET days  == today..(today + HorizonDays - 1)
        fresh == { <<d, i>> \in days \X (1..12) :
                      SlotKey(FormatDate(d), slots[i]) \notin DOMAIN av }
        keys  == { SlotKey(FormatDate(e[1]), slots[e[2]]) : e \in fresh }
        entry(k) == CHOOSE e \in fresh : SlotKey(FormatDate(e[1]), slots[e[2]]) = k
    IN  [ k \in (DOMAIN av) \cup keys |->
            IF k \in DOMAIN av THEN av[k]
            ELSE [ date |-> FormatDate(entry(k)[1]),
                   time |-> slots[entry(k)[2]],
                   isAvailable |-> TRUE ] ]

\* mutant of initializeAvailability: every slot of the window is set, whether
\* its key exists or not
initializeAvailability_Reset(av, today) ==
    LET days  == { d \in today..(today + HorizonDays - 1) : DayOfWeek(d) \notin {0, 6} }
        fresh == days \X (1..12)
        keys  == { SlotKey(FormatDate(e[1]), slots[e[2]]) : e \in fresh }
        entry(k) == CHOOSE e \in fresh : SlotKey(FormatDate(e[1]), slots[e[2]]) = k
    IN  [ k \in (DOMAIN av) \cup keys |->
            IF k \notin keys THEN av[k]
            ELSE [ date |-> FormatDate(entry(k)[1]),
                   time |-> slots[entry(k)[2]],
                   isAvailable |-> TRUE ] ]

\* initializeAvailability, run on day `today` over map `av`:
\* weekdays of the window get one slot per label unless the key exists
initializeAvailability(av, today) ==
    LET days  == { d \in today..(today + HorizonDays - 1) : DayOfWeek(d) \notin {0, 6} }
        fresh == { <<d, i>> \in days \X (1..12) :
                      SlotKey(FormatDate(d), slots[i]) \notin DOMAIN av }
        keys  == { SlotKey(FormatDate(e[1]), slots[e[2]]) : e \in fresh }
        entry(k) == CHOOSE e \in fresh : SlotKey(FormatDate(e[1]), slots[e[2]]) = k
    IN  [ k \in (DOMAIN av) \cup keys |->
            IF k \in DOMAIN av THEN av[k]
            ELSE [ date |-> FormatDate(entry(k)[1]),
                   time |-> slots[entry(k)[2]],
                   isAvailable |-> TRUE ] ]

\* mutant of isSlotAvailable: a missing slot counts as available
isSlotAvailable_MissingOk(av, date, time) ==
    LET key == SlotKey(date, time)
    IN  key \notin DOMAIN av \/ av[key].isAvailable

\* db.isSlotAvailable
isSlotAvailable(av, date, time) ==
    LET key == SlotKey(date, time)
    IN  key \in DOMAIN av /\ av[key].isAvailable

\* mutant of bookSlot: the flag is not flipped
bookSlot_NoFlip(av, date, time) == av

\* mutant of bookSlot: a slot is made for a key the map does not have
bookSlot_Creates(av, date, time) ==
    LET key == SlotKey(date, time)
    IN  [ k \in (DOMAIN av) \cup {key} |->
            IF k = key
            THEN [ date |-> date, time |-> time, isAvailable |-> FALSE ]
            ELSE av[k] ]

\* mutant of bookSlot: every slot of the date is taken
bookSlot_WholeDay(av, date, time) ==
    [ k \in DOMAIN av |->
        IF av[k].date = date THEN [av[k] EXCEPT !.isAvailable = FALSE] ELSE av[k] ]

\* db.bookSlot
bookSlot(av, date, time) ==
    LET key == SlotKey(date, time)
    IN  IF key \in DOMAIN av THEN [av EXCEPT ![key].isAvailable = FALSE] ELSE av

\* mutant of freeSlot: the flag is not set back
freeSlot_NoFree(av, date, time) == av

\* mutant of freeSlot: the key is built with a space, not a dash
freeSlot_KeyDrift(av, date, time) ==
    LET key == date \o " " \o time
    IN  IF key \in DOMAIN av THEN [av EXCEPT ![key].isAvailable = TRUE] ELSE av

\* mutant of freeSlot: every slot of the date is set free
freeSlot_FreeDay(av, date, time) ==
    [ k \in DOMAIN av |->
        IF av[k].date = date THEN [av[k] EXCEPT !.isAvailable = TRUE] ELSE av[k] ]

\* db.freeSlot
freeSlot(av, date, time) ==
    LET key == SlotKey(date, time)
    IN  IF key \in DOMAIN av THEN [av EXCEPT ![key].isAvailable = TRUE] ELSE av

\* moment(time, 'h:mm A'): the time of day of a label, in minutes
TimeMinutes(time) ==
    CASE time = "9:00 AM"  -> 540  [] time = "9:30 AM"  -> 570
      [] time = "10:00 AM" -> 600  [] time = "10:30 AM" -> 630
      [] time = "11:00 AM" -> 660  [] time = "11:30 AM" -> 690
      [] time = "2:00 PM"  -> 840  [] time = "2:30 PM"  -> 870
      [] time = "3:00 PM"  -> 900  [] time = "3:30 PM"  -> 930
      [] time = "4:00 PM"  -> 960  [] time = "4:30 PM"  -> 990

\* the 12 labels in the order of their strings
LexicalOrder == << "10:00 AM", "10:30 AM", "11:00 AM", "11:30 AM", "2:00 PM", "2:30 PM",
                   "3:00 PM", "3:30 PM", "4:00 PM", "4:30 PM", "9:00 AM", "9:30 AM" >>

\* mutant of EarlierLabel: the labels are compared as strings
EarlierLabel_Lexical(a, b) ==
    (CHOOSE i \in 1..12 : LexicalOrder[i] = a) < (CHOOSE i \in 1..12 : LexicalOrder[i] = b)

\* the comparator of times.sort: a goes before b
EarlierLabel(a, b) == TimeMinutes(a) < TimeMinutes(b)

\* db.getAvailableTimes: the labels of the free slots of `date`, pushed in the
\* order of the map's entries (a date's entries follow the template), then
\* sorted by time of day
getAvailableTimes(av, date) ==
    LET free == { av[k].time : k \in { x \in DOMAIN av : av[x].date = date /\ av[x].isAvailable } }
    IN  SortSeq(SelectSeq(slots, LAMBDA t : t \in free), EarlierLabel)

\* the days of the modelled year
CalendarDays == 0..364

\* the YYYY-MM-DD string of each day
DateStrings == [ d \in CalendarDays |-> FormatDate(d) ]

\* the day each YYYY-MM-DD string names
DayOfString == [ s \in { DateStrings[d] : d \in CalendarDays } |->
                   CHOOSE d \in CalendarDays : DateStrings[d] = s ]

\* the first day of each month, by its YYYY-MM string
FirstDayOfString == [ s \in { "2025-" \o Pad2(MonthOf(d, 1)) : d \in CalendarDays } |->
                        CHOOSE d \in CalendarDays :
                            "2025-" \o Pad2(MonthOf(d, 1)) = s /\ DayOfMonth(d, 1) = 1 ]

\* moment(date) of an ISO 8601 date string, as a day of the year: a YYYY-MM-DD
\* string names its day, a YYYY-MM string the first day of its month; -1 (an
\* invalid moment, which is neither before nor the same as any day) for any
\* other string
ParseDay(date) ==
    IF date \in DOMAIN DayOfString THEN DayOfString[date]
    ELSE IF date \in DOMAIN FirstDayOfString THEN FirstDayOfString[date]
    ELSE -1

\* the order of two YYYY-MM-DD strings as strings, which is the order of
\* their days
DateBefore(a, b) == ParseDay(a) < ParseDay(b)

\* mutant of getAvailableDates: the isAvailable flag is not read
getAvailableDates_AnySlot(av, year, month) ==
    LET startDay == ParseDay(ToString(year) \o "-" \o Pad2(month) \o "-01")
    IN  IF startDay = -1 THEN <<>>
        ELSE LET endDay == startDay + MonthLen[month] - 1
                 dates  == { av[k].date : k \in { x \in DOMAIN av :
                                 /\ ParseDay(av[x].date) >= startDay
                                 /\ ParseDay(av[x].date) <= endDay } }
                 added  == SelectSeq([ i \in 1..MonthLen[month] |-> DateStrings[startDay + i - 1] ],
                                     LAMBDA d : d \in dates)
             IN  SortSeq(added, DateBefore)

\* db.getAvailableDates: startDate and endDate are the first and the last day
\* of the month (no date at all for a month moment cannot parse); the dates
\* of the free slots between them are added to a Set, and the Set is sorted
getAvailableDates(av, year, month) ==
    LET startDay == ParseDay(ToString(year) \o "-" \o Pad2(month) \o "-01")
    IN  IF startDay = -1 THEN <<>>
        ELSE LET endDay == startDay + MonthLen[month] - 1
                 dates  == { av[k].date : k \in { x \in DOMAIN av :
                                 /\ ParseDay(av[x].date) >= startDay
                                 /\ ParseDay(av[x].date) <= endDay
                                 /\ av[x].isAvailable } }
                 added  == SelectSeq([ i \in 1..MonthLen[month] |-> DateStrings[startDay + i - 1] ],
                                     LAMBDA d : d \in dates)
             IN  SortSeq(added, DateBefore)

\* mutant of ListAvailableTimes: no test for a date in the past
ListAvailableTimes_NoPastCheck(av, t, date) ==
    LET day == ParseDay(date)
    IN  IF day = Today(t)
        THEN SelectSeq(getAvailableTimes(av, date),
                       LAMBDA time : TimeMinutes(time) > TimeOfDay(t))
        ELSE getAvailableTimes(av, date)

\* mutant of ListAvailableTimes: a label at the current time is kept
ListAvailableTimes_AtOrAfter(av, t, date) ==
    LET day == ParseDay(date)
    IN  IF day # -1 /\ day < Today(t) THEN <<>>
        ELSE IF day = Today(t)
             THEN SelectSeq(getAvailableTimes(av, date),
                            LAMBDA time : TimeMinutes(time) >= TimeOfDay(t))
             ELSE getAvailableTimes(av, date)

\* GET /api/availability/times?date=: the availableTimes of the response at instant t
ListAvailableTimes(av, t, date) ==
    LET day == ParseDay(date)
    IN  IF day # -1 /\ day < Today(t) THEN <<>>
        ELSE IF day = Today(t)
             THEN SelectSeq(getAvailableTimes(av, date),
                            LAMBDA time : TimeMinutes(time) > TimeOfDay(t))
             ELSE getAvailableTimes(av, date)

-----------------------------------------------------------------------------
(* Requests *)

RequiredFields == {"firstName", "lastName", "email", "company", "date", "time", "timezone"}

\* a Book body with every field given
FullBody(date, time) ==
    [ firstName |-> "Test", lastName |-> "User", email |-> "test@example.com",
      phone |-> "555-1234", company |-> "Test Company", message |-> "hi",
      date |-> date, time |-> time, timezone |-> "America/New_York" ]

\* no body (the request is not a Book)
NoBody ==
    [ firstName |-> "", lastName |-> "", email |-> "", phone |-> "", company |-> "",
      message |-> "", date |-> "", time |-> "", timezone |-> "" ]

\* the date the modelled clients ask for: the day after the startup day
ReqDate == FormatDate(StartDay + 1)

\* a date string that is no YYYY-MM-DD date (the year and month of ReqDate) ...
SplitDate == "2025-" \o Pad2(MonthOf(StartDay + 1, 1))

\* ... and the time string that, joined to it by the dash of the key, spells
\* the key of the 9:00 AM slot of ReqDate
SplitTime == Pad2(DayOfMonth(StartDay + 1, 1)) \o "-9:00 AM"

\* the Book bodies clients send
Bodies ==
    { FullBody(ReqDate, "9:00 AM"),
      [FullBody(ReqDate, "2:30 PM") EXCEPT !.phone = "", !.message = ""],
      FullBody(ReqDate, "1:00 PM") }
    \cup { [FullBody(ReqDate, "9:00 AM") EXCEPT ![f] = ""] : f \in RequiredFields }

\* the Book bodies of clients that leave out no field but the email
LiveBodies ==
    { b \in Bodies : \A f \in RequiredFields \ {"email"} : b[f] # "" }

\* the Book bodies of clients that also send a date that is no full date
LooseBodies == Bodies \cup { FullBody(SplitDate, SplitTime) }

\* the dates clients ask the times of: the days around the window, and two
\* strings that are no full date
QueryDates ==
    { FormatDate(d) : d \in (StartDay - 1)..(StartDay + HorizonDays) }
    \cup { SplitDate, "tomorrow" }

\* the months clients ask the dates of: the month of the window, the two
\* months after it, and a month number that is none
QueryMonths == { <<2025, m>> : m \in { MonthOf(StartDay, 1), MonthOf(StartDay, 1) + 1,
                                        MonthOf(StartDay, 1) + 2, 13 } }

\* the status values clients ask the meetings of: none, the two a Meeting can
\* have, and one no Meeting has
QueryStatuses == { "", "scheduled", "cancelled", "pending" }

\* the ids clients ask to cancel: every id the store can hold and one it never holds
CancelIds == 1..(MaxMeetings + 1)

\* the time of day the clock is read at: 9:30, when one label of the template
\* is past, one is due and the others are still ahead
ClockTime == 9 * 60 + 30

\* the instants the clock is read at
ClockInstants ==
    { d * MinutesPerDay + ClockTime : d \in StartDay..(StartDay + MaxDays) }

-----------------------------------------------------------------------------
(* The handlers *)

\* Map.get of a missing key
Undefined == [ undefined |-> TRUE ]

Event(op, body, id, status, meetingId, mails) ==
    [ op |-> op, body |-> body, id |-> id, status |-> status,
      meetingId |-> meetingId, mails |-> mails ]

\* mutant of MissingRequired: the timezone is not checked
MissingRequired_NoTimezone(b) ==
    \/ b.firstName = "" \/ b.lastName = "" \/ b.email = "" \/ b.company = ""
    \/ b.date = "" \/ b.time = ""

\* `!firstName || !lastName || !email || !company || !date || !time || !timezone`
MissingRequired(b) ==
    \/ b.firstName = "" \/ b.lastName = "" \/ b.email = "" \/ b.company = ""
    \/ b.date = "" \/ b.time = "" \/ b.timezone = ""

\* the decision of the Book handler before it changes anything:
\* 400 (validation), 409 (conflict) or 200 (the booking goes ahead)
BookDecision(av, b) ==
    IF MissingRequired(b) THEN 400
    ELSE IF ~isSlotAvailable(av, b.date, b.time) THEN 409
    ELSE 200

\* uuidv4(): an id no Meeting has
uuidv4(ms) == Cardinality(DOMAIN ms) + 1

\* mutant of NewMeeting: the date is stored in both date fields
NewMeeting_DateTwice(id, b) ==
    [ id |-> id, firstName |-> b.firstName, lastName |-> b.lastName, email |-> b.email,
      phone |-> b.phone, company |-> b.company, message |-> b.message,
      meetingDate |-> b.date, meetingTime |-> b.date, timezone |-> b.timezone,
      status |-> "scheduled", createdAt |-> "timestamp" ]

\* the meeting object the Book handler builds; createdAt, which no handler
\* reads, is kept as a token in place of the ISO string of the instant
NewMeeting(id, b) ==
    [ id |-> id, firstName |-> b.firstName, lastName |-> b.lastName, email |-> b.email,
      phone |-> b.phone, company |-> b.company, message |-> b.message,
      meetingDate |-> b.date, meetingTime |-> b.time, timezone |-> b.timezone,
      status |-> "scheduled", createdAt |-> "timestamp" ]

\* Map.set
MapSet(m, k, v) == [ x \in (DOMAIN m) \cup {k} |-> IF x = k THEN v ELSE m[x] ]

\* Map.get
MapGet(m, k) == IF k \in DOMAIN m THEN m[k] ELSE Undefined

\* mutant of BookResponseStatus: a failed send fails the request
BookResponseStatus_FailOnMailError(mails) ==
    IF \E i \in 1..Len(mails) : mails[i] = "failed" THEN 500 ELSE 200

\* the status of the response the Book handler sends once the try/catch
\* around the two sendMail calls is left
BookResponseStatus(mails) == 200

\* mutant of CancelResponseStatus: a Meeting already cancelled is refused
CancelResponseStatus_OnceOnly(meeting) ==
    IF meeting = Undefined THEN 404
    ELSE IF meeting.status = "cancelled" THEN 409 ELSE 200

\* mutant of CancelResponseStatus: the lookup result is not checked
CancelResponseStatus_AlwaysOk(meeting) == 200

\* the status of the response of the Cancel handler
CancelResponseStatus(meeting) == IF meeting = Undefined THEN 404 ELSE 200

\* moment(`${meetingDate} ${meetingTime}`, 'YYYY-MM-DD h:mm A').valueOf(), in
\* minutes since 2025-01-01 00:00
MeetingInstant(m) == ParseDay(m.meetingDate) * MinutesPerDay + TimeMinutes(m.meetingTime)

\* mutant of MeetingBefore: the date is left out of the comparison
MeetingBefore_TimeOnly(a, b) == TimeMinutes(a.meetingTime) < TimeMinutes(b.meetingTime)

\* the comparator of meetings.sort: a goes before b
MeetingBefore(a, b) == MeetingInstant(a) < MeetingInstant(b)

\* GET /api/meetings?status=: the values of the store in the order they were
\* set (the order of the ids), those of the given status if one is given,
\* sorted by date and time
getMeetings(ms, status) ==
    LET all  == [ i \in 1..Cardinality(DOMAIN ms) |-> ms[i] ]
        kept == IF status # "" THEN SelectSeq(all, LAMBDA m : m.status = status) ELSE all
    IN  SortSeq(kept, MeetingBefore)

\* mutant of Book: the handler goes to the first sendMail before it stores
\* the meeting and books the slot
Book_MailFirst(b) ==
    LET decision == BookDecision(availability, b)
        meetingId == uuidv4(meetings)
    IN  IF decision # 200
        THEN /\ last' = Event("book", b, 0, decision, 0, <<>>)
             /\ UNCHANGED <<availability, meetings, pending, now, adminVars>>
        ELSE /\ Cardinality(DOMAIN meetings) < MaxMeetings
             /\ Cardinality(DOMAIN pending) < MaxInFlight
             /\ pending' = MapSet(pending, meetingId,
                    [ stage |-> "mail1", body |-> b, mails |-> <<"pending">> ])
             /\ last' = Event("book", b, 0, 0, meetingId, <<"pending">>)
             /\ UNCHANGED <<availability, meetings, now, adminVars>>

\* mutant of Book: the handler stores the meeting and waits on the first
\* sendMail with the slot not yet booked
Book_SlotLater(b) ==
    LET decision == BookDecision(availability, b)
        meetingId == uuidv4(meetings)
    IN  IF decision # 200
        THEN /\ last' = Event("book", b, 0, decision, 0, <<>>)
             /\ UNCHANGED <<availability, meetings, pending, now, adminVars>>
        ELSE /\ Cardinality(DOMAIN meetings) < MaxMeetings
             /\ Cardinality(DOMAIN pending) < MaxInFlight
             /\ meetings' = MapSet(meetings, meetingId, NewMeeting(meetingId, b))
             /\ pending' = MapSet(pending, meetingId,
                    [ stage |-> "mail1", body |-> b, mails |-> <<"pending">> ])
             /\ last' = Event("book", b, 0, 0, meetingId, <<"pending">>)
             /\ UNCHANGED <<availability, now, adminVars>>

\* POST /api/meetings/book, from the request to the first await (or to the
\* 400 / 409 response)
Book(b) ==
    LET decision == BookDecision(availability, b)
        meetingId == uuidv4(meetings)
    IN  IF decision # 200
        THEN /\ last' = Event("book", b, 0, decision, 0, <<>>)
             /\ UNCHANGED <<availability, meetings, pending, now, adminVars>>
        ELSE /\ Cardinality(DOMAIN meetings) < MaxMeetings
             /\ Cardinality(DOMAIN pending) < MaxInFlight
             /\ meetings' = MapSet(meetings, meetingId, NewMeeting(meetingId, b))
             /\ availability' = bookSlot(availability, b.date, b.time)
             /\ pending' = MapSet(pending, meetingId,
                    [ stage |-> "mail1", body |-> b, mails |-> <<"pending">> ])
             /\ last' = Event("book", b, 0, 0, meetingId, <<"pending">>)
             /\ UNCHANGED <<now, adminVars>>

\* mutant of Respond: res.json is never called, the handler stays suspended
Respond_Never(id, mails) == UNCHANGED <<pending, last>>

\* the handler's response after the try/catch: res.json({success, meetingId, ...})
Respond(id, mails) ==
    /\ last' = Event("book", pending[id].body, 0, BookResponseStatus(mails), id, mails)
    /\ pending' = [ x \in (DOMAIN pending) \ {id} |-> pending[x] ]

\* a pending sendMail resolves: the customer mail is followed by the admin
\* mail, the admin mail by the response
MailResolve(id) ==
    /\ id \in DOMAIN pending
    /\ IF pending[id].stage = "mail1"
       THEN /\ pending' = [pending EXCEPT ![id].stage = "mail2",
                                          ![id].mails = <<"sent", "pending">>]
            /\ UNCHANGED last
       ELSE Respond(id, <<"sent", "sent">>)
    /\ UNCHANGED <<availability, meetings, now, adminVars>>

\* a pending sendMail rejects: the catch block logs, the response follows
MailReject(id) ==
    /\ id \in DOMAIN pending
    /\ Respond(id, IF pending[id].stage = "mail1" THEN <<"failed">> ELSE <<"sent", "failed">>)
    /\ UNCHANGED <<availability, meetings, now, adminVars>>

\* mutant of Cancel: the Meeting is deleted from the store
Cancel_Delete(id) ==
    LET meeting == MapGet(meetings, id)
    IN  /\ last' = Event("cancel", NoBody, id, CancelResponseStatus(meeting), 0, <<>>)
        /\ IF meeting = Undefined
           THEN UNCHANGED <<availability, meetings>>
           ELSE /\ meetings' = [ x \in (DOMAIN meetings) \ {id} |-> meetings[x] ]
                /\ availability' = freeSlot(availability, meeting.meetingDate, meeting.meetingTime)
        /\ UNCHANGED <<pending, now, adminVars>>

\* mutant of Cancel: the status is set, the slot is not freed
Cancel_StatusOnly(id) ==
    LET meeting == MapGet(meetings, id)
    IN  /\ last' = Event("cancel", NoBody, id, CancelResponseStatus(meeting), 0, <<>>)
        /\ IF meeting = Undefined
           THEN UNCHANGED meetings
           ELSE meetings' = [meetings EXCEPT ![id].status = "cancelled"]
        /\ UNCHANGED <<availability, pending, now, adminVars>>

\* POST /api/meetings/:id/cancel
Cancel(id) ==
    LET meeting == MapGet(meetings, id)
    IN  /\ last' = Event("cancel", NoBody, id, CancelResponseStatus(meeting), 0, <<>>)
        /\ IF meeting = Undefined
           THEN UNCHANGED <<availability, meetings>>
           ELSE /\ meetings' = [meetings EXCEPT ![id].status = "cancelled"]
                /\ availability' = freeSlot(availability, meeting.meetingDate, meeting.meetingTime)
        /\ UNCHANGED <<pending, now, adminVars>>

\* the response of a query handler, as the client sees it
QueryEvent(op, query, status, result) ==
    [ op |-> op, body |-> NoBody, id |-> 0, status |-> status, meetingId |-> 0,
      mails |-> <<>>, query |-> query, result |-> result ]

\* GET /api/availability/dates?year=&month= (0 stands for a missing parameter)
GetAvailableDates(ym) ==
    /\ last' = IF ym[1] = 0 \/ ym[2] = 0
               THEN QueryEvent("dates", ym, 400, <<>>)
               ELSE QueryEvent("dates", ym, 200, getAvailableDates(availability, ym[1], ym[2]))
    /\ UNCHANGED <<availability, meetings, pending, now, adminVars>>

\* GET /api/availability/times?date= ("" stands for a missing parameter)
GetAvailableTimes(date) ==
    /\ last' = IF date = ""
               THEN QueryEvent("times", date, 400, <<>>)
               ELSE QueryEvent("times", date, 200, ListAvailableTimes(availability, now, date))
    /\ UNCHANGED <<availability, meetings, pending, now, adminVars>>

\* GET /api/meetings?status=
GetMeetings(status) ==
    /\ last' = QueryEvent("meetings", status, 200, getMeetings(meetings, status))
    /\ UNCHANGED <<availability, meetings, pending, now, adminVars>>

\* the two counts of GET /api/health
HealthCounts(av, ms) ==
    << Cardinality(DOMAIN ms), Cardinality({ k \in DOMAIN av : av[k].isAvailable }) >>

\* GET /api/health
Health ==
    /\ last' = QueryEvent("health", "", 200, HealthCounts(availability, meetings))
    /\ UNCHANGED <<availability, meetings, pending, now, adminVars>>

\* db.initializeAvailability(): the call of the startup (line 359), or a
\* later call on the map as it then is
Initialize ==
    /\ availability' = initializeAvailability(availability, Today(now))
    /\ last' = [ op |-> "initialize", day |-> Today(now) ]
    /\ UNCHANGED <<meetings, pending, now, adminVars>>

\* the wall clock advances
Tick ==
    /\ \E t \in ClockInstants : t > now /\ now' = t
    /\ UNCHANGED <<availability, meetings, pending, last, adminVars>>

-----------------------------------------------------------------------------
(* Specifications *)

-----------------------------------------------------------------------------
(* The admin backend (src/server.js): documents and the state at startup *)

\* the clients that send requests to the backend, each with at most one
\* request being handled
Clients == {"a", "b"}

\* no handler of the client is suspended
Idle == [ op |-> "idle" ]

\* no response sent yet
NoReply == [ client |-> "", op |-> "none", status |-> 0 ]

\* process.env.SALT || 'corprex2024'
Salt == "corprex2024"

\* hashPassword: the sha256 digest of the password followed by the salt
hashPassword(password) == "sha256(" \o password \o Salt \o ")"

\* a document of collections.users
UserDoc(oid, username, password, role, modelAccess) ==
    [ oid |-> oid, username |-> username, password |-> hashPassword(password),
      role |-> role, modelAccess |-> modelAccess ]

\* a document of collections.models
ModelDoc(oid, modelId, provider, enabled) ==
    [ oid |-> oid, modelId |-> modelId, provider |-> provider, enabled |-> enabled,
      apiKeyRequired |-> TRUE ]

\* the default admin user of initializeDefaultData
DefaultAdmin == UserDoc(1, "admin", "admin123", "admin", {"all"})

\* two of the default models of initializeDefaultData, an enabled and a
\* disabled one
DefaultModels == { ModelDoc(2, "gpt-4", "openai", TRUE),
                   ModelDoc(3, "llama-2-70b", "replicate", FALSE) }

\* nothing told to any client yet
NothingSeen == [ tokens |-> {}, loggedOut |-> {}, deleted |-> {} ]

\* the backend after connectDB: the default data, no session, no usage
AdminStarted ==
    /\ users = { DefaultAdmin }
    /\ sessions = {}
    /\ models = DefaultModels
    /\ apiKeys = {}
    /\ usage = <<>>
    /\ flights = [ c \in Clients |-> Idle ]
    /\ reply = NoReply
    /\ seen = NothingSeen
    /\ minted = 3
    /\ clock = 0

-----------------------------------------------------------------------------
EmptyMap == [ k \in {} |-> Undefined ]

\* the state once the module is loaded: db.initializeAvailability() has run
Init ==
    /\ now = StartDay * MinutesPerDay + ClockTime
    /\ availability = initializeAvailability(EmptyMap, StartDay)
    /\ meetings = EmptyMap
    /\ pending = EmptyMap
    /\ last = Event("none", NoBody, 0, 0, 0, <<>>)
    /\ AdminStarted

Next ==
    \/ \E b \in Bodies : Book(b)
    \/ \E id \in 1..MaxMeetings : MailResolve(id)
    \/ \E id \in 1..MaxMeetings : MailReject(id)
    \/ \E id \in CancelIds : Cancel(id)
    \/ Tick

Spec == Init /\ [][Next]_vars

\* the dates, months and status values the observing clients ask about
ObservedDates == { ReqDate, "" }

ObservedMonths == { <<2025, MonthOf(StartDay + 1, 1)>>, <<2025, 0>> }

ObservedStatuses == { "scheduled" }

\* the requests, the mail steps and the clock, with the queries and the
\* health check handled between them
NextQuery ==
    \/ \E b \in LiveBodies : Book(b)
    \/ \E id \in 1..MaxMeetings : MailResolve(id)
    \/ \E id \in 1..MaxMeetings : MailReject(id)
    \/ \E id \in CancelIds : Cancel(id)
    \/ Tick
    \/ \E ym \in ObservedMonths : GetAvailableDates(ym)
    \/ \E date \in ObservedDates : GetAvailableTimes(date)
    \/ \E status \in ObservedStatuses : GetMeetings(status)
    \/ Health

SpecQuery == Init /\ [][NextQuery]_vars

\* the dates and the times the slot setters are called with: two times of
\* the template, one that is not, the pair that spells a key of ReqDate, and
\* a date the window does not reach
SetterDates == { ReqDate, SplitDate, FormatDate(StartDay + HorizonDays + 4) }

SetterTimes == { "9:00 AM", "9:30 AM", "4:30 PM", "1:00 PM", SplitTime }

\* db.bookSlot(date, time), called on the map as it is
CallBookSlot(date, time) ==
    /\ availability' = bookSlot(availability, date, time)
    /\ last' = QueryEvent("bookSlot", <<date, time>>, 0, <<>>)
    /\ UNCHANGED <<meetings, pending, now, adminVars>>

\* db.freeSlot(date, time), called on the map as it is
CallFreeSlot(date, time) ==
    /\ availability' = freeSlot(availability, date, time)
    /\ last' = QueryEvent("freeSlot", <<date, time>>, 0, <<>>)
    /\ UNCHANGED <<meetings, pending, now, adminVars>>

NextSetters ==
    \/ \E date \in SetterDates, time \in SetterTimes : CallBookSlot(date, time)
    \/ \E date \in SetterDates, time \in SetterTimes : CallFreeSlot(date, time)

SpecSetters == Init /\ [][NextSetters]_vars

\* every sendMail promise settles: a handler waiting on one is resumed
MailsSettle == \A id \in 1..MaxMeetings : WF_vars(MailResolve(id) \/ MailReject(id))

\* the requests and the mail steps at one clock instant: no handler of
\* Book or Cancel reads the clock
NextLive ==
    \/ \E b \in LiveBodies : Book(b)
    \/ \E id \in 1..MaxMeetings : MailResolve(id)
    \/ \E id \in 1..MaxMeetings : MailReject(id)
    \/ \E id \in CancelIds : Cancel(id)

SpecLive == Init /\ [][NextLive]_vars /\ MailsSettle

\* Book requests only: no Cancel is ever sent
NextBook ==
    \/ \E b \in Bodies : Book(b)
    \/ \E id \in 1..MaxMeetings : MailResolve(id)
    \/ \E id \in 1..MaxMeetings : MailReject(id)
    \/ Tick

SpecBook == Init /\ [][NextBook]_vars

\* the requests of Next, and Book requests whose date is no full date
NextLoose ==
    \/ \E b \in LooseBodies : Book(b)
    \/ \E id \in 1..MaxMeetings : MailResolve(id)
    \/ \E id \in 1..MaxMeetings : MailReject(id)
    \/ \E id \in CancelIds : Cancel(id)
    \/ Tick

SpecLoose == Init /\ [][NextLoose]_vars

\* the Meeting of the Book that took the i-th slot of ReqDate
BusyMeeting(i) == NewMeeting(i, FullBody(ReqDate, slots[i]))

\* the state after twelve Book requests, all of them answered, have taken the
\* twelve slots of ReqDate in the order of the template
InitBusy ==
    /\ now = StartDay * MinutesPerDay + ClockTime
    /\ availability =
          [ k \in DOMAIN initializeAvailability(EmptyMap, StartDay) |->
              [ initializeAvailability(EmptyMap, StartDay)[k] EXCEPT
                  !.isAvailable = (initializeAvailability(EmptyMap, StartDay)[k].date # ReqDate) ] ]
    /\ meetings = [ i \in 1..Len(slots) |-> BusyMeeting(i) ]
    /\ pending = EmptyMap
    /\ last = Event("book", FullBody(ReqDate, slots[Len(slots)]), 0, 200, Len(slots),
                    <<"sent", "sent">>)
    /\ AdminStarted

\* the server as started, or with a day that is booked out
InitAny == Init \/ InitBusy

SpecBusy == InitAny /\ [][Next]_vars

\* the state after two Book requests, both answered, on the startup day: the
\* first took 9:30 AM of ReqDate, the second 4:30 PM of the startup day
InitMixed ==
    /\ now = StartDay * MinutesPerDay + ClockTime
    /\ availability =
          bookSlot(bookSlot(initializeAvailability(EmptyMap, StartDay), ReqDate, "9:30 AM"),
                   FormatDate(StartDay), "4:30 PM")
    /\ meetings = << NewMeeting(1, FullBody(ReqDate, "9:30 AM")),
                     NewMeeting(2, FullBody(FormatDate(StartDay), "4:30 PM")) >>
    /\ pending = EmptyMap
    /\ last = Event("book", FullBody(FormatDate(StartDay), "4:30 PM"), 0, 200, 2,
                    <<"sent", "sent">>)
    /\ AdminStarted

SpecMixed == InitMixed /\ [][Next]_vars

\* the days the server may be started on: a Tuesday, a Thursday and a Sunday
StartDays == { StartDay - 2, StartDay, StartDay + 3 }

\* the state once `db` is built, before db.initializeAvailability() is called
InitLoad ==
    /\ now \in { d * MinutesPerDay + ClockTime : d \in StartDays }
    /\ availability = EmptyMap
    /\ meetings = EmptyMap
    /\ pending = EmptyMap
    /\ last = Event("none", NoBody, 0, 0, 0, <<>>)
    /\ AdminStarted

\* the startup code has run to app.listen: requests are handled
Listening == last.op # "none"

\* the startup from the empty slot map, further calls of
\* db.initializeAvailability(), and the Book and Cancel requests of Next; the
\* Book handlers stay suspended at their sendMail, whose outcome touches
\* neither map
NextInitialize ==
    \/ Initialize
    \/ Listening /\ \E b \in Bodies : Book(b)
    \/ Listening /\ \E id \in CancelIds : Cancel(id)
    \/ Listening /\ Tick

SpecInitialize == InitLoad /\ [][NextInitialize]_vars

-----------------------------------------------------------------------------
(* The admin backend: sessions (login, authenticate, logout, delete user) *)

\* 24 * 60 * 60 * 1000 ms, in days
SessionLife == 1
\* days the backend's clock may advance
MaxClock == 2
\* random tokens and ObjectIds the backend may generate
MaxMinted == 6

\* a token no login has issued
Forged == 0

\* the user object of a session: { id, username, role }
SessionUser(u) == [ id |-> u.oid, username |-> u.username, role |-> u.role ]

\* nobody: the user of a response sent before or without authentication
Nobody == [ id |-> 0, username |-> "", role |-> "" ]

\* a document of collections.sessions
SessionDoc(token, user, createdAt, expiresAt) ==
    [ token |-> token, user |-> user, createdAt |-> createdAt, expiresAt |-> expiresAt ]

\* res.status(status).json(...) to client c
Answer(c, op, status, token, user) ==
    reply' = [ client |-> c, op |-> op, status |-> status, token |-> token, user |-> user ]

\* the handler of client c is suspended at its next await, or has returned
Suspend(c, f) == flights' = [flights EXCEPT ![c] = f]

Return(c) == flights' = [flights EXCEPT ![c] = Idle]

\* findOne / deleteOne on a set of documents: one of the matching ones
OneOf(docs) == CHOOSE d \in docs : TRUE

\* mutant of FindSession: expiresAt is not compared with the clock
FindSession_AnyAge(token) == { x \in sessions : x.token = token }

\* authenticate: sessions.findOne({ token, expiresAt: { $gt: new Date() } })
FindSession(token) == { x \in sessions : x.token = token /\ x.expiresAt > clock }

\* the tokens a client may send: those of the login responses, or a forged one
Tokens == seen.tokens \cup {Forged}

\* POST /api/auth/login up to the await of sessions.insertOne
LoginFind(c, username, password) ==
    /\ flights[c] = Idle
    /\ LET found == { u \in users : u.username = username }
       IN  IF username = "" \/ password = ""
           THEN /\ Answer(c, "login", 400, Forged, Nobody)
                /\ UNCHANGED <<flights, minted>>
           ELSE IF found = {} \/ OneOf(found).password # hashPassword(password)
           THEN /\ Answer(c, "login", 401, Forged, Nobody)
                /\ UNCHANGED <<flights, minted>>
           ELSE /\ minted < MaxMinted
                /\ minted' = minted + 1
                /\ Suspend(c, [ op |-> "login", stage |-> "insertSession",
                                token |-> minted + 1,
                                user |-> SessionUser(OneOf(found)),
                                createdAt |-> clock,
                                expiresAt |-> clock + SessionLife ])
                /\ UNCHANGED reply
    /\ UNCHANGED <<users, sessions, models, apiKeys, usage, seen, clock, schedVars>>

\* sessions.insertOne of the login
LoginInsert(c) ==
    /\ flights[c] # Idle /\ flights[c].op = "login" /\ flights[c].stage = "insertSession"
    /\ sessions' = sessions \cup { SessionDoc(flights[c].token, flights[c].user,
                                               flights[c].createdAt, flights[c].expiresAt) }
    /\ Suspend(c, [flights[c] EXCEPT !.stage = "updateUser"])
    /\ UNCHANGED <<users, models, apiKeys, usage, reply, seen, minted, clock, schedVars>>

\* users.updateOne({ lastActive }) of the login and the response
LoginRespond(c) ==
    /\ flights[c] # Idle /\ flights[c].op = "login" /\ flights[c].stage = "updateUser"
    /\ Answer(c, "login", 200, flights[c].token, flights[c].user)
    /\ seen' = [seen EXCEPT !.tokens = @ \cup {flights[c].token}]
    /\ Return(c)
    /\ UNCHANGED <<users, sessions, models, apiKeys, usage, minted, clock, schedVars>>

\* POST /api/auth/logout: authenticate
LogoutAuth(c, token) ==
    /\ flights[c] = Idle
    /\ IF FindSession(token) = {}
       THEN /\ Answer(c, "logout", 401, token, Nobody)
            /\ UNCHANGED flights
       ELSE /\ Suspend(c, [ op |-> "logout", stage |-> "deleteSession", token |-> token,
                            user |-> OneOf(FindSession(token)).user ])
            /\ UNCHANGED reply
    /\ UNCHANGED <<users, sessions, models, apiKeys, usage, seen, minted, clock, schedVars>>

\* sessions.deleteOne({ token }) of the logout and the response
LogoutDelete(c) ==
    /\ flights[c] # Idle /\ flights[c].op = "logout" /\ flights[c].stage = "deleteSession"
    /\ LET found == { x \in sessions : x.token = flights[c].token }
       IN  sessions' = IF found = {} THEN sessions ELSE sessions \ { OneOf(found) }
    /\ Answer(c, "logout", 200, flights[c].token, flights[c].user)
    /\ seen' = [seen EXCEPT !.loggedOut = @ \cup {flights[c].token}]
    /\ Return(c)
    /\ UNCHANGED <<users, models, apiKeys, usage, minted, clock, schedVars>>

\* DELETE /api/users/:username: authenticate, requireAdmin, the admin check
DeleteUserAuth(c, token, username) ==
    /\ flights[c] = Idle
    /\ LET found == FindSession(token)
       IN  IF found = {}
           THEN /\ Answer(c, "deleteUser", 401, token, Nobody)
                /\ UNCHANGED flights
           ELSE IF OneOf(found).user.role # "admin"
           THEN /\ Answer(c, "deleteUser", 403, token, OneOf(found).user)
                /\ UNCHANGED flights
           ELSE IF username = "admin"
           THEN /\ Answer(c, "deleteUser", 400, token, OneOf(found).user)
                /\ UNCHANGED flights
           ELSE /\ Suspend(c, [ op |-> "deleteUser", stage |-> "deleteUser",
                                token |-> token, user |-> OneOf(found).user,
                                username |-> username ])
                /\ UNCHANGED reply
    /\ UNCHANGED <<users, sessions, models, apiKeys, usage, seen, minted, clock, schedVars>>

\* users.deleteOne({ username }) of the delete
DeleteUserDelete(c) ==
    /\ flights[c] # Idle /\ flights[c].op = "deleteUser" /\ flights[c].stage = "deleteUser"
    /\ LET found == { u \in users : u.username = flights[c].username }
       IN  IF found = {}
           THEN /\ Answer(c, "deleteUser", 404, flights[c].token, flights[c].user)
                /\ Return(c)
                /\ UNCHANGED users
           ELSE /\ users' = users \ { OneOf(found) }
                /\ Suspend(c, [flights[c] EXCEPT !.stage = "deleteSessions"])
                /\ UNCHANGED reply
    /\ UNCHANGED <<sessions, models, apiKeys, usage, seen, minted, clock, schedVars>>

\* sessions.deleteMany({ 'user.username': username }) of the delete and the
\* response
DeleteUserSessions(c) ==
    /\ flights[c] # Idle /\ flights[c].op = "deleteUser" /\ flights[c].stage = "deleteSessions"
    /\ sessions' = { x \in sessions : x.user.username # flights[c].username }
    /\ Answer(c, "deleteUser", 200, flights[c].token, flights[c].user)
    /\ seen' = [seen EXCEPT !.deleted = @ \cup {flights[c].username}]
    /\ Return(c)
    /\ UNCHANGED <<users, models, apiKeys, usage, minted, clock, schedVars>>

\* cleanExpiredSessions (and the TTL index on expiresAt):
\* sessions.deleteMany({ expiresAt: { $lt: new Date() } })
CleanExpiredSessions ==
    /\ sessions' = { x \in sessions : ~(x.expiresAt < clock) }
    /\ UNCHANGED <<users, models, apiKeys, usage, flights, reply, seen, minted, clock, schedVars>>

\* the backend's clock advances
AdminTick ==
    /\ clock < MaxClock
    /\ clock' = clock + 1
    /\ UNCHANGED <<users, sessions, models, apiKeys, usage, flights, reply, seen, minted, schedVars>>

\* the user the admin has created: role user, access to one model
Bob == UserDoc(4, "bob", "bobpw", "user", {"gpt-4"})

\* the credentials clients log in with
Credentials == { <<"admin", "admin123">>, <<"bob", "bobpw">>, <<"bob", "admin123">>, <<"bob", "">> }

\* the usernames the admin asks to delete
DeleteNames == { "bob", "admin" }

\* the backend after the admin has logged in (token 5) and created bob
InitSessions ==
    /\ users = { DefaultAdmin, Bob }
    /\ sessions = { SessionDoc(5, SessionUser(DefaultAdmin), 0, SessionLife) }
    /\ models = DefaultModels
    /\ apiKeys = {}
    /\ usage = <<>>
    /\ flights = [ c \in Clients |-> Idle ]
    /\ reply = [ client |-> "a", op |-> "login", status |-> 200, token |-> 5,
                 user |-> SessionUser(DefaultAdmin) ]
    /\ seen = [ tokens |-> {5}, loggedOut |-> {}, deleted |-> {} ]
    /\ minted = 5
    /\ clock = 0
    /\ now = StartDay * MinutesPerDay + ClockTime
    /\ availability = initializeAvailability(EmptyMap, StartDay)
    /\ meetings = EmptyMap
    /\ pending = EmptyMap
    /\ last = Event("none", NoBody, 0, 0, 0, <<>>)

NextSessions ==
    \/ \E c \in Clients, cr \in Credentials : LoginFind(c, cr[1], cr[2])
    \/ \E c \in Clients : LoginInsert(c)
    \/ \E c \in Clients : LoginRespond(c)
    \/ \E c \in Clients, token \in Tokens : LogoutAuth(c, token)
    \/ \E c \in Clients : LogoutDelete(c)
    \/ \E c \in Clients, token \in Tokens, username \in DeleteNames :
          DeleteUserAuth(c, token, username)
    \/ \E c \in Clients : DeleteUserDelete(c)
    \/ \E c \in Clients : DeleteUserSessions(c)
    \/ CleanExpiredSessions
    \/ AdminTick

SpecSessions == InitSessions /\ [][NextSessions]_vars

-----------------------------------------------------------------------------
(* The admin backend: creating users and models *)

\* authenticate and requireAdmin of a request of client c: the status it is
\* answered with at once, or 0 if the handler goes on
AdminGate(token) ==
    IF FindSession(token) = {} THEN 401
    ELSE IF OneOf(FindSession(token)).user.role # "admin" THEN 403
    ELSE 0

\* the user authenticate puts on the request
GateUser(token) == IF FindSession(token) = {} THEN Nobody ELSE OneOf(FindSession(token)).user

\* POST /api/users: authenticate, requireAdmin, the check of the body
CreateUserAuth(c, token, username, password) ==
    /\ flights[c] = Idle
    /\ IF AdminGate(token) # 0
       THEN /\ Answer(c, "createUser", AdminGate(token), token, GateUser(token))
            /\ UNCHANGED flights
       ELSE IF username = "" \/ password = ""
       THEN /\ Answer(c, "createUser", 400, token, GateUser(token))
            /\ UNCHANGED flights
       ELSE /\ Suspend(c, [ op |-> "createUser", stage |-> "findUser", token |-> token,
                            user |-> GateUser(token), username |-> username,
                            password |-> password ])
            /\ UNCHANGED reply
    /\ UNCHANGED <<users, sessions, models, apiKeys, usage, seen, minted, clock, schedVars>>

\* users.findOne({ username }) of POST /api/users
CreateUserFind(c) ==
    /\ flights[c] # Idle /\ flights[c].op = "createUser" /\ flights[c].stage = "findUser"
    /\ IF \E u \in users : u.username = flights[c].username
       THEN /\ Answer(c, "createUser", 400, flights[c].token, flights[c].user)
            /\ Return(c)
       ELSE /\ Suspend(c, [flights[c] EXCEPT !.stage = "insertUser"])
            /\ UNCHANGED reply
    /\ UNCHANGED <<users, sessions, models, apiKeys, usage, seen, minted, clock, schedVars>>

\* users.insertOne of POST /api/users, on a collection with the unique index
\* on username (createIndexes): a duplicate key is an error, the catch
\* answers 500
CreateUserInsert(c) ==
    /\ flights[c] # Idle /\ flights[c].op = "createUser" /\ flights[c].stage = "insertUser"
    /\ IF \E u \in users : u.username = flights[c].username
       THEN /\ Answer(c, "createUser", 500, flights[c].token, flights[c].user)
            /\ UNCHANGED <<users, minted>>
       ELSE /\ minted < MaxMinted
            /\ minted' = minted + 1
            /\ users' = users \cup { UserDoc(minted + 1, flights[c].username,
                                              flights[c].password, "user", {}) }
            /\ Answer(c, "createUser", 200, flights[c].token, flights[c].user)
    /\ Return(c)
    /\ UNCHANGED <<sessions, models, apiKeys, usage, seen, clock, schedVars>>

\* POST /api/models: authenticate, requireAdmin, the check of the body
CreateModelAuth(c, token, modelId) ==
    /\ flights[c] = Idle
    /\ IF AdminGate(token) # 0
       THEN /\ Answer(c, "createModel", AdminGate(token), token, GateUser(token))
            /\ UNCHANGED flights
       ELSE IF modelId = ""
       THEN /\ Answer(c, "createModel", 400, token, GateUser(token))
            /\ UNCHANGED flights
       ELSE /\ Suspend(c, [ op |-> "createModel", stage |-> "findModel", token |-> token,
                            user |-> GateUser(token), modelId |-> modelId ])
            /\ UNCHANGED reply
    /\ UNCHANGED <<users, sessions, models, apiKeys, usage, seen, minted, clock, schedVars>>

\* models.findOne({ modelId }) of POST /api/models
CreateModelFind(c) ==
    /\ flights[c] # Idle /\ flights[c].op = "createModel" /\ flights[c].stage = "findModel"
    /\ IF \E m \in models : m.modelId = flights[c].modelId
       THEN /\ Answer(c, "createModel", 400, flights[c].token, flights[c].user)
            /\ Return(c)
       ELSE /\ Suspend(c, [flights[c] EXCEPT !.stage = "insertModel"])
            /\ UNCHANGED reply
    /\ UNCHANGED <<users, sessions, models, apiKeys, usage, seen, minted, clock, schedVars>>

\* models.insertOne of POST /api/models (the collection has no unique index)
\* and the response
CreateModelInsert(c) ==
    /\ flights[c] # Idle /\ flights[c].op = "createModel" /\ flights[c].stage = "insertModel"
    /\ minted < MaxMinted
    /\ minted' = minted + 1
    /\ models' = models \cup { ModelDoc(minted + 1, flights[c].modelId, "together", FALSE) }
    /\ Answer(c, "createModel", 200, flights[c].token, flights[c].user)
    /\ Return(c)
    /\ UNCHANGED <<users, sessions, apiKeys, usage, seen, clock, schedVars>>

\* the usernames and the model ids the admin asks to create
CreateNames == { "bob", "admin", "" }

CreateModelIds == { "mixtral-8x7b", "gpt-4", "" }

\* the backend after the admin has logged in (token 4)
InitCreate ==
    /\ users = { DefaultAdmin }
    /\ sessions = { SessionDoc(4, SessionUser(DefaultAdmin), 0, SessionLife) }
    /\ models = DefaultModels
    /\ apiKeys = {}
    /\ usage = <<>>
    /\ flights = [ c \in Clients |-> Idle ]
    /\ reply = [ client |-> "a", op |-> "login", status |-> 200, token |-> 4,
                 user |-> SessionUser(DefaultAdmin) ]
    /\ seen = [ tokens |-> {4}, loggedOut |-> {}, deleted |-> {} ]
    /\ minted = 4
    /\ clock = 0
    /\ now = StartDay * MinutesPerDay + ClockTime
    /\ availability = initializeAvailability(EmptyMap, StartDay)
    /\ meetings = EmptyMap
    /\ pending = EmptyMap
    /\ last = Event("none", NoBody, 0, 0, 0, <<>>)

NextCreate ==
    \/ \E c \in Clients, token \in Tokens, username \in CreateNames :
          CreateUserAuth(c, token, username, "secret")
    \/ \E c \in Clients : CreateUserFind(c)
    \/ \E c \in Clients : CreateUserInsert(c)
    \/ \E c \in Clients, token \in Tokens, modelId \in CreateModelIds :
          CreateModelAuth(c, token, modelId)
    \/ \E c \in Clients : CreateModelFind(c)
    \/ \E c \in Clients : CreateModelInsert(c)

SpecCreate == InitCreate /\ [][NextCreate]_vars

-----------------------------------------------------------------------------
(* The admin backend: chat, model access, enabling models *)

\* usage documents the collection may hold
MaxUsage == 1

\* mutant of HasAccess: the access list is not looked at
HasAccess_Any(userAccess, model) == TRUE

\* userAccess.includes('all') || userAccess.includes(model)
HasAccess(userAccess, model) == "all" \in userAccess \/ model \in userAccess

\* no model document: what findOne gives when nothing matches
NoModel == [ oid |-> 0, modelId |-> "", provider |-> "", enabled |-> FALSE,
             apiKeyRequired |-> FALSE ]

\* POST /api/chat: authenticate
ChatAuth(c, token, model) ==
    /\ flights[c] = Idle
    /\ IF FindSession(token) = {}
       THEN /\ Answer(c, "chat", 401, token, Nobody)
            /\ UNCHANGED flights
       ELSE /\ Suspend(c, [ op |-> "chat",
                            stage |-> IF GateUser(token).role # "admin"
                                      THEN "findUser" ELSE "findModel",
                            token |-> token, user |-> GateUser(token), model |-> model,
                            userAccess |-> {}, modelConfig |-> NoModel ])
            /\ UNCHANGED reply
    /\ UNCHANGED <<users, sessions, models, apiKeys, usage, seen, minted, clock, schedVars>>

\* users.findOne({ username }) of the chat of a user who is not admin, and
\* the access check (a user no longer found: user.modelAccess throws, the
\* catch answers 500)
ChatFindUser(c) ==
    /\ flights[c] # Idle /\ flights[c].op = "chat" /\ flights[c].stage = "findUser"
    /\ LET found == { u \in users : u.username = flights[c].user.username }
       IN  IF found = {}
           THEN /\ Answer(c, "chat", 500, flights[c].token, flights[c].user)
                /\ Return(c)
           ELSE IF ~HasAccess(OneOf(found).modelAccess, flights[c].model)
           THEN /\ Answer(c, "chat", 403, flights[c].token, flights[c].user)
                /\ Return(c)
           ELSE /\ Suspend(c, [flights[c] EXCEPT !.stage = "findModel",
                                                 !.userAccess = OneOf(found).modelAccess])
                /\ UNCHANGED reply
    /\ UNCHANGED <<users, sessions, models, apiKeys, usage, seen, minted, clock, schedVars>>

\* models.findOne({ modelId: model }) of the chat and the check of the model
ChatFindModel(c) ==
    /\ flights[c] # Idle /\ flights[c].op = "chat" /\ flights[c].stage = "findModel"
    /\ LET found == { m \in models : m.modelId = flights[c].model }
       IN  IF found = {} \/ ~OneOf(found).enabled
           THEN /\ Answer(c, "chat", 400, flights[c].token, flights[c].user)
                /\ Return(c)
           ELSE /\ Suspend(c, [flights[c] EXCEPT !.stage = "findKeys",
                                                 !.modelConfig = OneOf(found)])
                /\ UNCHANGED reply
    /\ UNCHANGED <<users, sessions, models, apiKeys, usage, seen, minted, clock, schedVars>>

\* apiKeys.findOne({ _id: 'main' }) of the chat and the check of the key
ChatFindKeys(c) ==
    /\ flights[c] # Idle /\ flights[c].op = "chat" /\ flights[c].stage = "findKeys"
    /\ IF flights[c].modelConfig.provider \notin apiKeys /\ flights[c].modelConfig.apiKeyRequired
       THEN /\ Answer(c, "chat", 500, flights[c].token, flights[c].user)
            /\ Return(c)
       ELSE /\ Suspend(c, [flights[c] EXCEPT !.stage = "insertUsage"])
            /\ UNCHANGED reply
    /\ UNCHANGED <<users, sessions, models, apiKeys, usage, seen, minted, clock, schedVars>>

\* usage.insertOne of the chat and the response with the model's answer
ChatInsertUsage(c) ==
    /\ flights[c] # Idle /\ flights[c].op = "chat" /\ flights[c].stage = "insertUsage"
    /\ Len(usage) < MaxUsage
    /\ usage' = Append(usage, [ username |-> flights[c].user.username,
                                userId |-> flights[c].user.id,
                                model |-> flights[c].model ])
    /\ Answer(c, "chat", 200, flights[c].token, flights[c].user)
    /\ Return(c)
    /\ UNCHANGED <<users, sessions, models, apiKeys, seen, minted, clock, schedVars>>

\* PUT /api/users/:username/models: authenticate, requireAdmin
SetAccessAuth(c, token, username, modelAccess) ==
    /\ flights[c] = Idle
    /\ IF AdminGate(token) # 0
       THEN /\ Answer(c, "setAccess", AdminGate(token), token, GateUser(token))
            /\ UNCHANGED flights
       ELSE /\ Suspend(c, [ op |-> "setAccess", stage |-> "updateUser", token |-> token,
                            user |-> GateUser(token), username |-> username,
                            modelAccess |-> modelAccess ])
            /\ UNCHANGED reply
    /\ UNCHANGED <<users, sessions, models, apiKeys, usage, seen, minted, clock, schedVars>>

\* users.updateOne({ username }, { $set: { modelAccess } }) and the response
SetAccessUpdate(c) ==
    /\ flights[c] # Idle /\ flights[c].op = "setAccess" /\ flights[c].stage = "updateUser"
    /\ LET found == { u \in users : u.username = flights[c].username }
       IN  IF found = {}
           THEN /\ Answer(c, "setAccess", 404, flights[c].token, flights[c].user)
                /\ UNCHANGED users
           ELSE /\ users' = (users \ { OneOf(found) }) \cup
                        { [OneOf(found) EXCEPT !.modelAccess = flights[c].modelAccess] }
                /\ Answer(c, "setAccess", 200, flights[c].token, flights[c].user)
    /\ Return(c)
    /\ UNCHANGED <<sessions, models, apiKeys, usage, seen, minted, clock, schedVars>>

\* PUT /api/models/:modelId with { enabled }: authenticate, requireAdmin
SetModelAuth(c, token, modelId, enabled) ==
    /\ flights[c] = Idle
    /\ IF AdminGate(token) # 0
       THEN /\ Answer(c, "setModel", AdminGate(token), token, GateUser(token))
            /\ UNCHANGED flights
       ELSE /\ Suspend(c, [ op |-> "setModel", stage |-> "updateModel", token |-> token,
                            user |-> GateUser(token), modelId |-> modelId,
                            enabled |-> enabled ])
            /\ UNCHANGED reply
    /\ UNCHANGED <<users, sessions, models, apiKeys, usage, seen, minted, clock, schedVars>>

\* models.updateOne({ modelId }, { $set: updates }), models.findOne and the
\* response
SetModelUpdate(c) ==
    /\ flights[c] # Idle /\ flights[c].op = "setModel" /\ flights[c].stage = "updateModel"
    /\ LET found == { m \in models : m.modelId = flights[c].modelId }
       IN  IF found = {}
           THEN /\ Answer(c, "setModel", 404, flights[c].token, flights[c].user)
                /\ UNCHANGED models
           ELSE /\ models' = (models \ { OneOf(found) }) \cup
                        { [OneOf(found) EXCEPT !.enabled = flights[c].enabled] }
                /\ Answer(c, "setModel", 200, flights[c].token, flights[c].user)
    /\ Return(c)
    /\ UNCHANGED <<users, sessions, apiKeys, usage, seen, minted, clock, schedVars>>

\* the models clients ask to chat with, and the access lists and the model
\* the admin sets
ChatModels == { "gpt-4", "llama-2-70b" }

AccessLists == { {}, {"all"} }

\* the backend after the admin (token 5) and bob (token 6) have logged in
\* and the admin has created bob and set the key of openai
InitChat ==
    /\ users = { DefaultAdmin, Bob }
    /\ sessions = { SessionDoc(5, SessionUser(DefaultAdmin), 0, SessionLife),
                    SessionDoc(6, SessionUser(Bob), 0, SessionLife) }
    /\ models = DefaultModels
    /\ apiKeys = { "openai" }
    /\ usage = <<>>
    /\ flights = [ c \in Clients |-> Idle ]
    /\ reply = [ client |-> "b", op |-> "login", status |-> 200, token |-> 6,
                 user |-> SessionUser(Bob) ]
    /\ seen = [ tokens |-> {5, 6}, loggedOut |-> {}, deleted |-> {} ]
    /\ minted = 6
    /\ clock = 0
    /\ now = StartDay * MinutesPerDay + ClockTime
    /\ availability = initializeAvailability(EmptyMap, StartDay)
    /\ meetings = EmptyMap
    /\ pending = EmptyMap
    /\ last = Event("none", NoBody, 0, 0, 0, <<>>)

NextChat ==
    \/ \E c \in Clients, token \in Tokens, model \in ChatModels : ChatAuth(c, token, model)
    \/ \E c \in Clients : ChatFindUser(c)
    \/ \E c \in Clients : ChatFindModel(c)
    \/ \E c \in Clients : ChatFindKeys(c)
    \/ \E c \in Clients : ChatInsertUsage(c)
    \/ \E c \in Clients, token \in Tokens, modelAccess \in AccessLists :
          SetAccessAuth(c, token, "bob", modelAccess)
    \/ \E c \in Clients : SetAccessUpdate(c)
    \/ \E c \in Clients, token \in Tokens, enabled \in BOOLEAN :
          SetModelAuth(c, token, "gpt-4", enabled)
    \/ \E c \in Clients : SetModelUpdate(c)

SpecChat == InitChat /\ [][NextChat]_vars

-----------------------------------------------------------------------------
(* Vocabulary of the properties *)

\* the slot key a Meeting record refers to
MeetingKey(m) == SlotKey(m.meetingDate, m.meetingTime)

\* the ids of the Meetings with status scheduled
ScheduledIds == { i \in DOMAIN meetings : meetings[i].status = "scheduled" }

\* the ids of the Meetings with status cancelled
CancelledIds == { i \in DOMAIN meetings : meetings[i].status = "cancelled" }

\* every field the contract requires is given
AllRequiredGiven(b) == \A f \in RequiredFields : b[f] # ""

\* the slot a body asks for is in the slot map and free
SlotFree(b) ==
    /\ SlotKey(b.date, b.time) \in DOMAIN availability
    /\ availability[SlotKey(b.date, b.time)].isAvailable

\* the dates that have a slot
SlotDates == { availability[k].date : k \in DOMAIN availability }

\* the free slots of a date
FlagsOf(av, date) == { k \in DOMAIN av : av[k].date = date /\ av[k].isAvailable }

InSeq(x, s) == \E i \in 1..Len(s) : s[i] = x

\* the times ListAvailableTimes(date) gives in state 1 (slot map av1 at instant
\* t1) and did not give in state 0
NewlyListed(av0, t0, av1, t1, date) ==
    LET before == ListAvailableTimes(av0, t0, date)
        after  == ListAvailableTimes(av1, t1, date)
    IN  { after[i] : i \in { j \in 1..Len(after) : ~InSeq(after[j], before) } }

\* this step ends the suspended Book handler of meeting id (its response is sent)
Completes(id) == id \in DOMAIN pending /\ id \notin DOMAIN pending'

\* this step handles a Book request that has just arrived
BookArrives == last'.op = "book" /\ last' # last /\ \A id \in DOMAIN pending : ~Completes(id)

\* this step handles a Cancel request
CancelArrives == last'.op = "cancel" /\ last' # last

(* C1: two Book requests with valid fields for the same available slot, in
   flight at the same time: the one handled while the other is suspended at
   an await gets the 409 and creates nothing, the suspended one gets the
   success response, and exactly one Meeting refers to the slot. *)
C1_ConcurrentBooksOneWins ==
    [][ \A p \in DOMAIN pending :
          LET key == SlotKey(pending[p].body.date, pending[p].body.time)
          IN  /\ ( /\ BookArrives
                   /\ AllRequiredGiven(last'.body)
                   /\ SlotKey(last'.body.date, last'.body.time) = key )
                 => (last'.status = 409 /\ meetings' = meetings)
              /\ Completes(p)
                 => /\ last'.status = 200
                    /\ last'.meetingId = p
                    /\ Cardinality({ i \in DOMAIN meetings' :
                                       MeetingKey(meetings'[i]) = key }) = 1
      ]_vars

\* a Book for a slot is refused with 409 while the Book that took the slot is suspended
C1_Witness ==
    \E p \in DOMAIN pending :
        /\ last.op = "book" /\ last.status = 409 /\ AllRequiredGiven(last.body)
        /\ SlotKey(last.body.date, last.body.time)
             = SlotKey(pending[p].body.date, pending[p].body.time)

(* C2: no slot (date, time) is referenced by more than one Meeting with
   status scheduled, in any state reached by Book and Cancel calls. *)
C2_AtMostOneScheduledPerSlot ==
    \A i, j \in ScheduledIds :
        ( /\ meetings[i].meetingDate = meetings[j].meetingDate
          /\ meetings[i].meetingTime = meetings[j].meetingTime ) => i = j

(* C3: every Meeting with status scheduled has its slot in the slot map
   with isAvailable = FALSE. *)
C3_ScheduledSlotUnavailable ==
    \A i \in ScheduledIds :
        /\ MeetingKey(meetings[i]) \in DOMAIN availability
        /\ ~availability[MeetingKey(meetings[i])].isAvailable

(* C4: the slot of every Meeting with status cancelled has isAvailable =
   TRUE, unless a different Meeting with status scheduled refers to the
   same slot. *)
C4_CancelledSlotFreeUnlessRebooked ==
    \A i \in CancelledIds :
        /\ MeetingKey(meetings[i]) \in DOMAIN availability
        /\ \/ availability[MeetingKey(meetings[i])].isAvailable
           \/ \E j \in ScheduledIds :
                 j # i /\ MeetingKey(meetings[j]) = MeetingKey(meetings[i])

\* a cancelled Meeting whose slot was booked again by another Meeting
C4_Witness ==
    \E i \in CancelledIds : \E j \in ScheduledIds :
        /\ MeetingKey(meetings[j]) = MeetingKey(meetings[i])
        /\ ~availability[MeetingKey(meetings[i])].isAvailable

(* C5: a Book with all required fields for a slot that exists and is free
   goes ahead: right after its state change the Meeting with the id it
   generated exists, is scheduled and carries the requested date and time,
   the slot is unavailable and ListAvailableTimes(date) lacks the time; the
   response it sends later is the success with that id; and a time absent
   from ListAvailableTimes only comes back by a Cancel of a meeting on that
   slot. *)
C5_BookSucceeds ==
    [][ /\ (BookArrives /\ AllRequiredGiven(last'.body) /\ SlotFree(last'.body))
           => LET b == last'.body
                  id == last'.meetingId
              IN  /\ last'.status = 0
                  /\ id \notin DOMAIN meetings
                  /\ id \in DOMAIN meetings'
                  /\ meetings'[id].status = "scheduled"
                  /\ meetings'[id].meetingDate = b.date
                  /\ meetings'[id].meetingTime = b.time
                  /\ ~availability'[SlotKey(b.date, b.time)].isAvailable
                  /\ ~InSeq(b.time, ListAvailableTimes(availability', now', b.date))
                  /\ id \in DOMAIN pending'
        /\ \A p \in DOMAIN pending :
             Completes(p) => (last'.status = 200 /\ last'.meetingId = p)
        /\ (now' # now \/ availability' # availability) =>
           \A date \in SlotDates :
             (now' # now \/ FlagsOf(availability', date) # FlagsOf(availability, date))
             => \A time \in NewlyListed(availability, now, availability', now', date) :
                   /\ last'.op = "cancel" /\ last'.status = 200
                   /\ MeetingKey(meetings[last'.id]) = SlotKey(date, time)
      ]_vars

\* a Book has gone ahead: its Meeting is scheduled and the handler awaits the mail
C5_Witness ==
    \E p \in DOMAIN pending :
        /\ pending[p].stage = "mail1"
        /\ last.op = "book" /\ last.meetingId = p
        /\ meetings[p].status = "scheduled"
        /\ ~availability[SlotKey(last.body.date, last.body.time)].isAvailable

(* C6: Cancel of a Meeting with status scheduled whose date is after today
   sets its status to cancelled, and ListAvailableTimes(meetingDate) then
   holds meetingTime again, so that a Book of that slot goes ahead. *)
C6_CancelReleasesSlot ==
    [][ ( /\ CancelArrives
          /\ last'.id \in ScheduledIds
          /\ ParseDay(meetings[last'.id].meetingDate) > Today(now) )
        => LET m == meetings[last'.id]
           IN  /\ last'.status = 200
               /\ meetings'[last'.id].status = "cancelled"
               /\ InSeq(m.meetingTime,
                        ListAvailableTimes(availability', now', m.meetingDate))
               /\ BookDecision(availability', FullBody(m.meetingDate, m.meetingTime)) = 200
      ]_vars

\* a Meeting of a later day has been cancelled and its time is listed again
C6_Witness ==
    /\ last.op = "cancel" /\ last.status = 200
    /\ last.id \in CancelledIds
    /\ ParseDay(meetings[last.id].meetingDate) > Today(now)
    /\ InSeq(meetings[last.id].meetingTime,
             ListAvailableTimes(availability, now, meetings[last.id].meetingDate))

(* C7: a Book with all required fields whose slot key is unknown or whose
   slot is unavailable gets the 409, leaves the slot map and the meeting
   store unchanged, and dispatches no notification. *)
C7_ConflictChangesNothing ==
    [][ (BookArrives /\ AllRequiredGiven(last'.body) /\ ~SlotFree(last'.body))
        => /\ last'.status = 409
           /\ availability' = availability
           /\ meetings' = meetings
           /\ pending' = pending
           /\ last'.mails = <<>>
      ]_vars

\* a Book for a key that is not in the slot map was refused with 409
C7_Witness ==
    /\ last.op = "book" /\ last.status = 409
    /\ AllRequiredGiven(last.body)
    /\ SlotKey(last.body.date, last.body.time) \notin DOMAIN availability

(* C8: a Book with any required field missing or empty gets the 400
   whatever the state of the slot, and leaves the slot map and the meeting
   store unchanged; a Book that lacks only phone and message is not
   rejected for validation. *)
C8_ValidationFirst ==
    [][ /\ (BookArrives /\ ~AllRequiredGiven(last'.body))
           => /\ last'.status = 400
              /\ availability' = availability
              /\ meetings' = meetings
              /\ pending' = pending
        /\ (BookArrives /\ AllRequiredGiven(last'.body)) => last'.status # 400
      ]_vars

\* a Book without a first name was refused with 400 while its slot was booked
C8_Witness ==
    /\ last.op = "book" /\ last.status = 400
    /\ last.body.firstName = ""
    /\ SlotKey(last.body.date, last.body.time) \in DOMAIN availability
    /\ ~availability[SlotKey(last.body.date, last.body.time)].isAvailable

(* C9: Cancel with an id that is not in the meeting store gets the 404 and
   leaves every meeting and every slot unchanged. *)
C9_CancelUnknownId ==
    [][ (CancelArrives /\ last'.id \notin DOMAIN meetings)
        => /\ last'.status = 404
           /\ meetings' = meetings
           /\ availability' = availability
      ]_vars

\* a Cancel of an unknown id was refused while the store held a scheduled Meeting
C9_Witness ==
    /\ last.op = "cancel" /\ last.status = 404
    /\ last.id \notin DOMAIN meetings
    /\ ScheduledIds # {}

(* C10: when a notification send fails during a Book that went ahead, the
   Book still responds with success and its meetingId, and the failure
   changes neither the meeting store nor the slot map: nothing is rolled
   back. *)
C10_MailFailureKeepsBooking ==
    [][ \A p \in DOMAIN pending :
          (Completes(p) /\ InSeq("failed", last'.mails))
          => /\ last'.status = 200
             /\ last'.meetingId = p
             /\ last'.meetingId \in DOMAIN meetings'
             /\ meetings' = meetings
             /\ availability' = availability
      ]_vars

\* a Book whose mail failed has answered success; its Meeting is still
\* scheduled and its slot still unavailable
C10_Witness ==
    /\ last.op = "book" /\ last.status = 200
    /\ InSeq("failed", last.mails)
    /\ last.meetingId \in ScheduledIds
    /\ ~availability[MeetingKey(meetings[last.meetingId])].isAvailable

(* C11: when a Book handler reaches its first sendMail, the Meeting record
   is already in the store with status scheduled and the slot is already
   unavailable; while the handler is suspended the record stays in the
   store, and as long as no Cancel request is handled the Meeting stays
   scheduled and its slot unavailable, so a request handled meanwhile sees
   both. *)
C11_StoredBeforeNotification ==
    [][ /\ \A p \in (DOMAIN pending') \ (DOMAIN pending) :
              LET key == SlotKey(pending'[p].body.date, pending'[p].body.time)
              IN  /\ pending'[p].mails = <<"pending">>
                  /\ p \in DOMAIN meetings'
                  /\ meetings'[p].status = "scheduled"
                  /\ MeetingKey(meetings'[p]) = key
                  /\ key \in DOMAIN availability'
                  /\ ~availability'[key].isAvailable
        /\ \A p \in DOMAIN pending :
              /\ p \in DOMAIN meetings
              /\ p \in DOMAIN meetings'
              /\ ( /\ ~CancelArrives
                    /\ meetings[p].status = "scheduled"
                    /\ ~availability[MeetingKey(meetings[p])].isAvailable )
                 => /\ meetings'[p] = meetings[p]
                    /\ ~availability'[MeetingKey(meetings[p])].isAvailable
      ]_vars

\* while a Book handler waits for its first sendMail, a later Book of the
\* same slot was handled: it found the Meeting scheduled and the slot taken
C11_Witness ==
    \E p \in DOMAIN pending :
        /\ pending[p].mails = <<"pending">>
        /\ meetings[p].status = "scheduled"
        /\ ~availability[MeetingKey(meetings[p])].isAvailable
        /\ last.op = "book" /\ last.status = 409
        /\ SlotKey(last.body.date, last.body.time) = MeetingKey(meetings[p])

(* C12: Cancel is idempotent: a Cancel of the id that the latest request, a
   Cancel answered with success, has just cancelled is answered with success
   too and leaves every Meeting and every slot as the first call left them. *)
C12_CancelIdempotent ==
    [][ ( /\ last.op = "cancel" /\ last.status = 200
          /\ last'.op = "cancel" /\ last'.id = last.id )
        => /\ last'.status = 200
           /\ meetings' = meetings
           /\ availability' = availability
      ]_vars

\* the state a repeated Cancel is sent in and leaves: the latest request is
\* the successful Cancel of a Meeting that is cancelled, whose slot is free
C12_Witness ==
    /\ last.op = "cancel" /\ last.status = 200
    /\ meetings[last.id].status = "cancelled"
    /\ MeetingKey(meetings[last.id]) \in DOMAIN availability
    /\ availability[MeetingKey(meetings[last.id])].isAvailable

(* C13: a Book with all required fields whose time is not one of the 12
   labels gets the 409 and changes nothing, whatever its date string is. *)
C13_UnknownTimeRejected ==
    [][ ( /\ BookArrives
          /\ AllRequiredGiven(last'.body)
          /\ ~InSeq(last'.body.time, slots) )
        => /\ last'.status = 409
           /\ availability' = availability
           /\ meetings' = meetings
           /\ pending' = pending
      ]_vars

\* this step is a run of Initialize
InitializeRuns == last'.op = "initialize" /\ (last' # last \/ availability' # availability)

\* the Monday-to-Friday days of the window that starts on day `today`
WindowWeekdays(today) ==
    { d \in today..(today + HorizonDays - 1) : DayOfWeek(d) \in 1..5 }

\* the keys of the slots of map av with the given date and time
SlotsOf(av, date, time) == { k \in DOMAIN av : av[k].date = date /\ av[k].time = time }

(* C14: the Initialize of the startup, run on the empty slot map, leaves
   exactly one slot for each Monday-to-Friday date of the window that starts
   today and each of the 12 labels, every slot with isAvailable = TRUE, and
   no slot on a Saturday or a Sunday. *)
C14_InitializeFillsWindow ==
    [][ (InitializeRuns /\ DOMAIN availability = {})
        => /\ \A d \in WindowWeekdays(Today(now)) : \A i \in 1..12 :
                 Cardinality(SlotsOf(availability', FormatDate(d), slots[i])) = 1
           /\ \A k \in DOMAIN availability' :
                 /\ availability'[k].isAvailable
                 /\ InSeq(availability'[k].time, slots)
                 /\ ParseDay(availability'[k].date) \in WindowWeekdays(Today(now))
                 /\ DayOfWeek(ParseDay(availability'[k].date)) \notin {0, 6}
      ]_vars

\* the startup Initialize has just run on a day whose window holds a weekend
\* day, and the slot map holds slots
C14_Witness ==
    /\ last.op = "initialize" /\ last.day = Today(now)
    /\ meetings = EmptyMap
    /\ \E d \in last.day..(last.day + HorizonDays - 1) : DayOfWeek(d) \in {0, 6}
    /\ DOMAIN availability # {}
    /\ \A k \in DOMAIN availability :
          ParseDay(availability[k].date) \in WindowWeekdays(last.day)

\* every slot of the window that starts on day `today` is in map av
WindowFilled(av, today) ==
    \A d \in WindowWeekdays(today) : \A i \in 1..12 :
        SlotKey(FormatDate(d), slots[i]) \in DOMAIN av

(* C15: a run of Initialize on a slot map that Book and Cancel calls have
   worked on keeps every slot there is, with its flag; a slot it adds is an
   available slot of the window of the day of the run; and a run on a day
   whose window is in the map already (as it is after a run on that day)
   leaves the map unchanged. *)
C15_InitializeKeepsSlots ==
    [][ InitializeRuns
        => /\ \A k \in DOMAIN availability :
                 k \in DOMAIN availability' /\ availability'[k] = availability[k]
           /\ \A k \in (DOMAIN availability') \ (DOMAIN availability) :
                 /\ availability'[k].isAvailable
                 /\ InSeq(availability'[k].time, slots)
                 /\ ParseDay(availability'[k].date) \in WindowWeekdays(Today(now))
                 /\ k = SlotKey(availability'[k].date, availability'[k].time)
           /\ (last.op = "initialize" /\ last.day = Today(now))
                 => availability' = availability
           /\ WindowFilled(availability, Today(now)) => availability' = availability
      ]_vars

\* Initialize has just run on a day later than an earlier run (the map holds
\* a slot of a day before this window) while a Meeting is scheduled, and the
\* slot of that Meeting is still unavailable
C15_Witness ==
    /\ last.op = "initialize" /\ last.day = Today(now)
    /\ \E k \in DOMAIN availability : ParseDay(availability[k].date) < last.day
    /\ \E i \in ScheduledIds :
          /\ MeetingKey(meetings[i]) \in DOMAIN availability
          /\ ~availability[MeetingKey(meetings[i])].isAvailable

\* the slot (date, time) is in the slot map and free
FreeAt(date, time) ==
    \E k \in DOMAIN availability :
        /\ availability[k].date = date /\ availability[k].time = time
        /\ availability[k].isAvailable

\* the labels of the template
Labels == { slots[i] : i \in 1..Len(slots) }

(* C16: for a date before today, by the civil date alone,
   ListAvailableTimes(date) is the empty sequence, whatever the flags of the
   slots of that date. *)
C16_PastDateEmpty ==
    \A date \in QueryDates :
        (ParseDay(date) # -1 /\ ParseDay(date) < Today(now))
        => ListAvailableTimes(availability, now, date) = <<>>

\* yesterday still has free slots in the slot map
C16_Witness ==
    \E date \in QueryDates :
        /\ ParseDay(date) # -1 /\ ParseDay(date) < Today(now)
        /\ \E time \in Labels : FreeAt(date, time)

(* C17: for the date of today, ListAvailableTimes(date) holds exactly the
   labels of the free slots of today whose time of day is after the clock
   time: none at or before it, and every free one after it. *)
C17_TodayAfterNow ==
    \A date \in QueryDates :
        ParseDay(date) = Today(now)
        => LET r == ListAvailableTimes(availability, now, date)
           IN  /\ \A i \in 1..Len(r) : r[i] \in Labels
               /\ \A time \in Labels :
                     InSeq(time, r) <=> ( /\ FreeAt(date, time)
                                          /\ TimeMinutes(time) > TimeOfDay(now) )

\* today has a free slot before the clock time, one at the clock time, one
\* after it, and a booked slot after it
C17_Witness ==
    \E date \in QueryDates :
        /\ ParseDay(date) = Today(now)
        /\ \E time \in Labels : FreeAt(date, time) /\ TimeMinutes(time) < TimeOfDay(now)
        /\ \E time \in Labels : FreeAt(date, time) /\ TimeMinutes(time) = TimeOfDay(now)
        /\ \E time \in Labels : FreeAt(date, time) /\ TimeMinutes(time) > TimeOfDay(now)
        /\ \E time \in Labels :
              /\ ~FreeAt(date, time) /\ TimeMinutes(time) > TimeOfDay(now)
              /\ SlotKey(date, time) \in DOMAIN availability

(* C18: for a date after today, ListAvailableTimes(date) holds exactly the
   labels of the free slots of that date, each once, in the order of their
   time of day. *)
C18_FutureDateChronological ==
    \A date \in QueryDates :
        ParseDay(date) > Today(now)
        => LET r == ListAvailableTimes(availability, now, date)
           IN  /\ \A i \in 1..Len(r) : r[i] \in Labels
               /\ \A time \in Labels : InSeq(time, r) <=> FreeAt(date, time)
               /\ \A i, j \in 1..Len(r) :
                     i < j => TimeMinutes(r[i]) < TimeMinutes(r[j])

\* a later date has a booked slot and free slots of the morning and of the
\* afternoon, among them 9:30 AM and 10:00 AM, which string order would swap
C18_Witness ==
    \E date \in QueryDates :
        /\ ParseDay(date) > Today(now)
        /\ \E time \in Labels :
              SlotKey(date, time) \in DOMAIN availability /\ ~FreeAt(date, time)
        /\ FreeAt(date, "9:30 AM") /\ FreeAt(date, "10:00 AM") /\ FreeAt(date, "2:00 PM")

\* the dates that have a free slot
FreeDates == { availability[k].date : k \in { x \in DOMAIN availability :
                                                  availability[x].isAvailable } }

(* C19: ListAvailableDates(year, month) gives, in ascending order and each
   once, exactly the dates of that month that have a free slot: a date whose
   slots are all booked is not given, and a month without a slot gives the
   empty sequence. *)
C19_AvailableDatesOfMonth ==
    \A q \in QueryMonths :
        LET r == getAvailableDates(availability, q[1], q[2])
        IN  /\ \A i \in 1..Len(r) :
                  /\ r[i] \in FreeDates
                  /\ MonthOf(ParseDay(r[i]), 1) = q[2]
            /\ \A date \in FreeDates :
                  MonthOf(ParseDay(date), 1) = q[2] => InSeq(date, r)
            /\ \A i, j \in 1..Len(r) : i < j => ParseDay(r[i]) < ParseDay(r[j])
            /\ (\A date \in SlotDates : MonthOf(ParseDay(date), 1) # q[2]) => r = <<>>

\* every slot of a date of the month is booked while another date of the
\* month has free slots, and a later month has no slot
C19_Witness ==
    /\ \E date \in SlotDates :
          /\ date \notin FreeDates
          /\ ~InSeq(date, getAvailableDates(availability, 2025, MonthOf(ParseDay(date), 1)))
          /\ getAvailableDates(availability, 2025, MonthOf(ParseDay(date), 1)) # <<>>
    /\ \E q \in QueryMonths : \A date \in SlotDates : MonthOf(ParseDay(date), 1) # q[2]

(* C20: a Meeting enters the store only by a Book with every required field
   whose slot was free, and enters it scheduled; a Meeting in the store
   stays in the store; the only change it ever sees is its status going from
   scheduled to cancelled, by the Cancel of its id. *)
C20_MeetingLifecycle ==
    [][ /\ \A id \in (DOMAIN meetings') \ (DOMAIN meetings) :
              /\ BookArrives
              /\ last'.meetingId = id
              /\ AllRequiredGiven(last'.body)
              /\ SlotFree(last'.body)
              /\ meetings'[id].status = "scheduled"
        /\ \A id \in DOMAIN meetings :
              /\ id \in DOMAIN meetings'
              /\ \/ meetings'[id] = meetings[id]
                 \/ /\ meetings[id].status = "scheduled"
                    /\ meetings'[id] = [meetings[id] EXCEPT !.status = "cancelled"]
                    /\ CancelArrives
                    /\ last'.id = id
      ]_vars

\* the store holds a Meeting that a Cancel has just cancelled, next to a
\* Meeting booked after it that is scheduled
C20_Witness ==
    /\ last.op = "cancel" /\ last.status = 200
    /\ last.id \in CancelledIds
    /\ \E j \in ScheduledIds : j > last.id

\* the date and the time of day a Meeting is sorted by
SortKey(m) == << ParseDay(m.meetingDate), TimeMinutes(m.meetingTime) >>

\* pair a is not after pair b
NotAfter(a, b) == a[1] < b[1] \/ (a[1] = b[1] /\ a[2] <= b[2])

(* C21: GET meetings gives every Meeting of the store when no status is
   given and exactly the Meetings of the given status otherwise, each once,
   in ascending order of (meetingDate, time of day of meetingTime). *)
C21_MeetingsListed ==
    \A status \in QueryStatuses :
        LET r == getMeetings(meetings, status)
        IN  /\ \A id \in DOMAIN meetings :
                  Cardinality({ i \in 1..Len(r) : r[i] = meetings[id] })
                    = IF status = "" \/ meetings[id].status = status THEN 1 ELSE 0
            /\ \A i \in 1..Len(r) : \E id \in DOMAIN meetings : r[i] = meetings[id]
            /\ \A i, j \in 1..Len(r) : i < j => NotAfter(SortKey(r[i]), SortKey(r[j]))

\* the store holds a cancelled and a scheduled Meeting, and a Meeting booked
\* later than another is for an earlier date but a later time of day
C21_Witness ==
    /\ CancelledIds # {} /\ ScheduledIds # {}
    /\ \E i, j \in DOMAIN meetings :
          /\ i < j
          /\ ParseDay(meetings[j].meetingDate) < ParseDay(meetings[i].meetingDate)
          /\ TimeMinutes(meetings[j].meetingTime) > TimeMinutes(meetings[i].meetingTime)

\* this step answers an arriving Book request at once, with an error
AnsweredAtOnce == last'.status \in {400, 409} /\ pending' = pending

\* this step leaves the handler of an arriving Book request waiting on its
\* first notification
Suspended ==
    /\ last'.status = 0
    /\ DOMAIN pending' = DOMAIN pending \cup {last'.meetingId}
    /\ last'.meetingId \notin DOMAIN pending

(* C22: every Book request gets exactly one response. A request that fails
   validation or the availability check is answered in the step that handles
   it, no notification being waited on; a request that goes ahead waits on
   its notifications, is answered once with the success response when they
   have settled, and is never answered again. *)
C22_BookAnswered ==
    /\ [][ /\ BookArrives => (AnsweredAtOnce \/ Suspended)
           /\ \A id \in DOMAIN pending :
                 Completes(id) => last'.status = 200 /\ last'.meetingId = id
           /\ \A id \in DOMAIN meetings :
                 id \notin DOMAIN pending => id \notin DOMAIN pending' ]_vars
    /\ \A id \in 1..MaxMeetings :
          (id \in DOMAIN pending) ~> (id \notin DOMAIN pending)

\* two Book requests went ahead and both have had their response, the last
\* one after both notifications were sent
C22_Witness ==
    /\ Cardinality(DOMAIN meetings) >= 2
    /\ pending = EmptyMap
    /\ last.op = "book" /\ last.status = 200 /\ last.mails = <<"sent", "sent">>

\* this step handles a query or the health check
QueryArrives == last'.op \in {"dates", "times", "meetings", "health"} /\ last' # last

\* the answer the query handled by this step gives is the one the state it
\* leaves behind gives
AnswersFromState ==
    /\ (last'.op = "times" /\ last'.status = 200) =>
          last'.result = ListAvailableTimes(availability', now', last'.query)
    /\ (last'.op = "dates" /\ last'.status = 200) =>
          last'.result = getAvailableDates(availability', last'.query[1], last'.query[2])
    /\ last'.op = "meetings" => last'.result = getMeetings(meetings', last'.query)
    /\ last'.op = "health" => last'.result = HealthCounts(availability', meetings')

(* C23: a step that handles an availability query, GET meetings or the
   health check changes no slot and no meeting and answers from the state
   as it is; a step that inserts a Meeting leaves the slot of that Meeting
   unavailable, and a step that marks a Meeting cancelled leaves its slot
   available, so no handler running between two steps finds a Meeting
   inserted with its slot still to be taken, or cancelled with its slot
   still to be freed. *)
C23_QueriesSeeWholeSteps ==
    [][ /\ QueryArrives =>
              (UNCHANGED <<availability, meetings, pending, now>> /\ AnswersFromState)
        /\ \A id \in (DOMAIN meetings') \ (DOMAIN meetings) :
              ~availability'[MeetingKey(meetings'[id])].isAvailable
        /\ \A id \in DOMAIN meetings :
              (meetings[id].status = "scheduled" /\ meetings'[id].status = "cancelled")
                => availability'[MeetingKey(meetings'[id])].isAvailable ]_vars

\* a times query is answered while a Book waits on its notifications and the
\* time that Book took is not in the answer; an earlier Meeting is cancelled
C23_Witness ==
    /\ last.op = "times" /\ last.status = 200
    /\ CancelledIds # {}
    /\ \E p \in DOMAIN pending :
          /\ meetings[p].status = "scheduled"
          /\ last.query = meetings[p].meetingDate
          /\ ~InSeq(meetings[p].meetingTime, last.result)

(* C24: every Meeting of the store has a meetingDate and a meetingTime that
   are the date and the time of one slot of the slot map, whatever date and
   time strings the Book requests carry. *)
C24_MeetingNamesSlot ==
    \A id \in DOMAIN meetings :
        \E k \in DOMAIN availability :
            /\ availability[k].date = meetings[id].meetingDate
            /\ availability[k].time = meetings[id].meetingTime

\* the slots other than the one of key k are as they were
OtherSlotsKept(k) ==
    \A x \in (DOMAIN availability) \ {k} : availability'[x] = availability[x]

\* the Meetings other than the one of the given id are as they were
OtherMeetingsKept(id) ==
    \A x \in (DOMAIN meetings) \ {id} : x \in DOMAIN meetings' /\ meetings'[x] = meetings[x]

\* no slot is added or removed and none changes its date or its time
SlotIdentitiesKept ==
    /\ DOMAIN availability' = DOMAIN availability
    /\ \A k \in DOMAIN availability :
          /\ availability'[k].date = availability[k].date
          /\ availability'[k].time = availability[k].time

\* this step handles a Book request that goes ahead
BookGoesAhead == BookArrives /\ last'.status = 0

\* this step handles a Cancel request that finds its Meeting
CancelGoesAhead == CancelArrives /\ last'.status = 200

(* C25: a Book that goes ahead adds one Meeting, under an id no Meeting had,
   and leaves every other Meeting and every slot but the requested one as it
   was; a Cancel that finds its Meeting changes only the status of that
   Meeting and leaves every slot but that Meeting's as it was; every other
   step, the clock advancing included, leaves the Meetings and the slots as
   they were; no step adds or removes a slot or changes the date or the time
   of one. *)
C25_WriteFrame ==
    [][ \/ /\ ~BookGoesAhead /\ ~CancelGoesAhead
           /\ meetings' = meetings /\ availability' = availability
        \/ /\ BookGoesAhead
           /\ last'.meetingId \notin DOMAIN meetings
           /\ DOMAIN meetings' = (DOMAIN meetings) \cup {last'.meetingId}
           /\ OtherMeetingsKept(last'.meetingId)
           /\ OtherSlotsKept(SlotKey(last'.body.date, last'.body.time))
           /\ SlotIdentitiesKept
        \/ /\ CancelGoesAhead
           /\ DOMAIN meetings' = DOMAIN meetings
           /\ OtherMeetingsKept(last'.id)
           /\ meetings'[last'.id] = [meetings[last'.id] EXCEPT !.status = "cancelled"]
           /\ OtherSlotsKept(MeetingKey(meetings[last'.id]))
           /\ SlotIdentitiesKept ]_vars

\* on the day after the startup day a Cancel has found its Meeting while
\* another Meeting is scheduled and the slots of both days are in the map
C25_Witness ==
    /\ last.op = "cancel" /\ last.status = 200
    /\ Today(now) > StartDay
    /\ CancelledIds # {} /\ ScheduledIds # {}
    /\ DOMAIN availability = DOMAIN initializeAvailability(EmptyMap, StartDay)

(* C26: every Book that goes ahead has attempted both notifications by the
   time it answers: the one to the booker and the one to the operator
   address, also when the send to the booker failed. *)
C26_BothNotificationsAttempted ==
    [][ \A p \in DOMAIN pending : Completes(p) => Len(last'.mails) = 2 ]_vars

(* C27: when a Book sends its success response, the Meeting it names has
   status scheduled and the slot of that Meeting is unavailable, whatever
   Cancel and Book requests were handled while its notifications were
   pending. *)
C27_AnsweredMeetingStands ==
    [][ \A p \in DOMAIN pending :
          Completes(p) =>
              /\ meetings'[p].status = "scheduled"
              /\ ~availability'[MeetingKey(meetings'[p])].isAvailable ]_vars

(* C28: a Book request goes ahead only for a time that the times query of
   its date gives at that moment, so not for a slot of a past date or of
   today at or before the current time. *)
C28_BookAgreesWithTimesQuery ==
    [][ BookGoesAhead =>
          InSeq(last'.body.time,
                ListAvailableTimes(availability, now, last'.body.date)) ]_vars

(* C29: every date in the answer of the dates query of a month has a
   non-empty answer of the times query, at any clock time. *)
C29_QueriesAgree ==
    \A ym \in QueryMonths :
        LET dates == getAvailableDates(availability, ym[1], ym[2])
        IN  \A i \in 1..Len(dates) :
                ListAvailableTimes(availability, now, dates[i]) # <<>>

(* C30: in every state reached by Book and Cancel requests, every slot whose
   isAvailable is false is the slot of at least one Meeting with status
   scheduled (the slot the key of that Meeting's date and time names). *)
C30_NoSlotBlockedWithoutBooking ==
    \A k \in DOMAIN availability :
        ~availability[k].isAvailable =>
            \E id \in ScheduledIds : MeetingKey(meetings[id]) = k

\* a slot is unavailable and held by a scheduled Meeting while another slot,
\* booked and cancelled, is available again
C30_Witness ==
    /\ \E k \in DOMAIN availability : ~availability[k].isAvailable
    /\ \E c \in CancelledIds : availability[MeetingKey(meetings[c])].isAvailable
    /\ \E id \in ScheduledIds :
          \A c \in CancelledIds : MeetingKey(meetings[c]) # MeetingKey(meetings[id])

\* this step handles the Cancel of the Meeting whose Book was the request
\* handled last: no other Book or Cancel came between the two
CancelFollowsItsBook ==
    /\ CancelArrives
    /\ last.op = "book" /\ last.meetingId # 0
    /\ last'.id = last.meetingId

(* C31: a Book that goes ahead takes the slot map to one from which freeing
   the requested slot gives back the map before the Book; the Cancel of the
   returned meetingId, no other Book or Cancel having been handled between
   the two, leaves exactly that map (the one the slot map had between the
   two with the slot set free), keeps the Meeting in the store and sets its
   status to cancelled. *)
C31_BookCancelRoundTrip ==
    [][ /\ BookGoesAhead =>
              /\ isSlotAvailable(availability, last'.body.date, last'.body.time)
              /\ freeSlot(availability', last'.body.date, last'.body.time) = availability
        /\ CancelFollowsItsBook =>
              /\ availability' = freeSlot(availability, last.body.date, last.body.time)
              /\ meetings' = [meetings EXCEPT ![last'.id].status = "cancelled"] ]_vars

\* the Meeting booked last is cancelled, its Cancel is the request handled
\* last, its slot is free and a Meeting booked earlier on the same date is
\* still scheduled, its slot still taken
C31_Witness ==
    /\ last.op = "cancel" /\ last.status = 200
    /\ last.id = Cardinality(DOMAIN meetings)
    /\ last.id \in CancelledIds
    /\ availability[MeetingKey(meetings[last.id])].isAvailable
    /\ \E id \in ScheduledIds :
          /\ meetings[id].meetingDate = meetings[last.id].meetingDate
          /\ ~availability[MeetingKey(meetings[id])].isAvailable

\* the setter called by this step leaves every slot but the one of key k as
\* it was, adds and removes none, and gives the slot of key k, if the map has
\* it, the given flag and nothing else new
SetsOnlyFlag(k, flag) ==
    /\ DOMAIN availability' = DOMAIN availability
    /\ OtherSlotsKept(k)
    /\ k \in DOMAIN availability =>
          availability'[k] = [availability[k] EXCEPT !.isAvailable = flag]

(* C36: bookSlot and freeSlot called with a date and a time whose key the
   slot map does not have leave the map as it was: no slot is made and the
   call returns normally; called with a key the map has, they set the
   isAvailable flag of that slot, to false and to true, and change nothing
   else. *)
C36_SettersLenient ==
    [][ /\ last'.op = "bookSlot" =>
              SetsOnlyFlag(SlotKey(last'.query[1], last'.query[2]), FALSE)
        /\ last'.op = "freeSlot" =>
              SetsOnlyFlag(SlotKey(last'.query[1], last'.query[2]), TRUE)
        /\ (last'.op \in {"bookSlot", "freeSlot"}
              /\ SlotKey(last'.query[1], last'.query[2]) \notin DOMAIN availability)
             => availability' = availability ]_vars

\* a setter has just been called with a key the map does not have, after
\* calls that took one slot and took and freed another
C36_Witness ==
    /\ last.op \in {"bookSlot", "freeSlot"}
    /\ SlotKey(last.query[1], last.query[2]) \notin DOMAIN availability
    /\ \E k \in DOMAIN availability : ~availability[k].isAvailable
    /\ DOMAIN availability = DOMAIN initializeAvailability(EmptyMap, StartDay)

\* this step takes a request of client c through authenticate: its handler
\* is suspended at a later await, or has answered with something other than
\* the 401
Passes(c) ==
    /\ flights[c] = Idle
    /\ \/ flights'[c] # Idle /\ flights'[c].op # "login"
       \/ reply' # reply /\ reply'.client = c /\ reply'.op # "login" /\ reply'.status # 401

\* the token and the user of the request that this step takes through
\* authenticate
PassToken(c) == IF flights'[c] # Idle THEN flights'[c].token ELSE reply'.token

PassUser(c) == IF flights'[c] # Idle THEN flights'[c].user ELSE reply'.user

\* the sessions of the user of the given name
SessionsOf(username) == { x \in sessions : x.user.username = username }

(* C32: once DELETE /api/users/:username has answered success, no session
   document of that user exists, whatever logins and other requests of that
   user were being handled during the deletion. *)
C32_DeletedUserHasNoSession ==
    \A username \in seen.deleted : SessionsOf(username) = {}

(* C34: a request passes authenticate only if its token is one a login
   response has given, the session of that token was made by a login less
   than 24 hours ago, and no logout with that token has answered; so after
   the response of a logout with a token, no request with that token is
   authenticated. *)
C34_AuthenticatedTokenIsLive ==
    [][ \A c \in Clients :
          Passes(c) =>
              /\ PassToken(c) \in seen.tokens
              /\ PassToken(c) \notin seen.loggedOut
              /\ \E x \in sessions :
                    /\ x.token = PassToken(c)
                    /\ x.user = PassUser(c)
                    /\ clock - x.createdAt < SessionLife ]_vars

\* a logout with a token already logged out has been refused, and a session
\* that has expired is still in the collection
C34_Witness ==
    /\ reply.op = "logout" /\ reply.status = 401
    /\ reply.token \in seen.loggedOut
    /\ \E x \in sessions : x.expiresAt <= clock /\ x.token \in seen.tokens

\* no two user documents have the same username
UsernamesUnique == \A u, v \in users : u.username = v.username => u = v

(* C33: no two model documents have the same modelId and no two user
   documents the same username, also when two POST /api/models (or two POST
   /api/users) requests for the same identifier are handled at the same
   time. *)
C33_IdentifiersUnique ==
    /\ \A m, n \in models : m.modelId = n.modelId => m = n
    /\ UsernamesUnique

\* this step takes the chat handler of client c from one await to the next
ChatMoves(c, from, to) ==
    /\ flights[c] # Idle /\ flights[c].op = "chat" /\ flights[c].stage = from
    /\ flights'[c] # Idle /\ flights'[c].stage = to

\* this step adds the usage document of the chat of client c and answers it
\* with the model's response
ChatServed(c) ==
    /\ flights[c] # Idle /\ flights[c].op = "chat" /\ flights'[c] = Idle
    /\ reply'.status = 200
    /\ usage' = Append(usage, [ username |-> flights[c].user.username,
                                userId |-> flights[c].user.id,
                                model |-> flights[c].model ])

\* this step is one of the chat handler of client c
ChatStep(c) ==
    \/ /\ flights'[c] # flights[c]
       /\ \/ flights[c] # Idle /\ flights[c].op = "chat"
          \/ flights'[c] # Idle /\ flights'[c].op = "chat"
    \/ /\ flights' = flights
       /\ reply' # reply /\ reply'.client = c /\ reply'.op = "chat"

\* the access list holds 'all' or the model id
Lists(modelAccess, model) == "all" \in modelAccess \/ model \in modelAccess

\* the chat handler of client c comes to each await from the one before it:
\* the read of the user first unless the session says admin, then the read
\* of the model, of the keys, and the insert of the usage
ChatInOrder(c) ==
    (flights'[c] # Idle /\ flights'[c].op = "chat" /\ flights'[c] # flights[c]) =>
        \/ /\ flights'[c].stage = "findUser"
           /\ flights[c] = Idle /\ flights'[c].user.role # "admin"
        \/ /\ flights'[c].stage = "findModel"
           /\ \/ flights[c] = Idle /\ flights'[c].user.role = "admin"
              \/ ChatMoves(c, "findUser", "findModel")
        \/ ChatMoves(c, "findModel", "findKeys")
        \/ ChatMoves(c, "findKeys", "insertUsage")

(* C35: POST /api/chat adds a usage document and answers with the model's
   response only for a request whose user, if not admin, had 'all' or the
   requested model id in modelAccess when the handler read the user, and
   whose model was in the collection and enabled when the handler read it;
   such a chat adds one document, and every other step of a chat handler,
   whatever it answers, adds none. *)
C35_ChatServedOnlyWithAccess ==
    [][ \A c \in Clients :
              /\ (ChatStep(c) /\ ~ChatServed(c)) => usage' = usage
              /\ ChatServed(c) =>
                    /\ flights[c].stage = "insertUsage"
                    /\ flights[c].user.role # "admin" =>
                          Lists(flights[c].userAccess, flights[c].model)
                    /\ flights[c].modelConfig.modelId = flights[c].model
                    /\ flights[c].modelConfig.enabled
              /\ ChatMoves(c, "findUser", "findModel") =>
                    \E u \in users :
                        /\ u.username = flights[c].user.username
                        /\ u.modelAccess = flights'[c].userAccess
                        /\ Lists(u.modelAccess, flights[c].model)
              /\ ChatMoves(c, "findModel", "findKeys") =>
                    /\ flights'[c].modelConfig \in models
                    /\ flights'[c].modelConfig.modelId = flights[c].model
                    /\ flights'[c].modelConfig.enabled
              /\ ChatInOrder(c) ]_vars

\* bob has been served a chat with a model he had access to, and a later
\* chat of bob is refused the access
C35_Witness ==
    /\ Len(usage) > 0 /\ usage[1].username = "bob"
    /\ reply.op = "chat" /\ reply.status = 403 /\ reply.user.username = "bob"

=============================================================================
